---- MODULE Spec2Model ----
(***************************************************************************)
(* A model of the salvador ZX0 compressor core (src/src/shrink.c): the bit *)
(* writer, the Elias-gamma writer, the cost model, the optimal forward     *)
(* parser, the block emitter and the block driver.                         *)
(*                                                                         *)
(* Arrays of the C code are sequences read through At(s, i) == s[i + 1],   *)
(* so every index below is the 0-based index of the source.                *)
(***************************************************************************)
EXTENDS Integers, Sequences, FiniteSets, TLC

(***************************************************************************)
(* Program constants                                                       *)
(***************************************************************************)
INT_MIN == (-2147483647) - 1
MIN_ENCODED_MATCH_SIZE == 2
TOKEN_SIZE == 1
MIN_OFFSET == 1
MAX_OFFSET == 32640
FLG_IS_INVERTED == 1
EOD_VALUE == 256
MAX_VARLEN == 65535

(***************************************************************************)
(* Bounds of the model                                                     *)
(***************************************************************************)
MaxOutCap == 3
MaxWriterOps == 3
MaxEliasValue == 300
MaxCmds == 3
MaxParseLen == 4
\* the block size of format.h (65536 there), scaled down so that inputs of up to MaxInputLen
\* bytes span several blocks
BLOCK_SIZE == 5
MaxInputLen == 7
MaxDictionary == 2
\* the output buffer that is too small
MaxOutBuffer == 3

\* the bytes of the windows given to the parser
ParseBytes == {97, 98}

(***************************************************************************)
(* Helpers for C arithmetic                                                *)
(***************************************************************************)
At(s, i) == s[i + 1]

RECURSIVE Pow2(_)
Pow2(n) == IF n <= 0 THEN 1 ELSE 2 * Pow2(n - 1)

BitOf(v, n) == (v \div Pow2(n)) % 2

Min(a, b) == IF a < b THEN a ELSE b

Max(a, b) == IF a > b THEN a ELSE b

NULL == -1

VARIABLES
    wr,      \* the bit writer: pOutData, nOutOffset, nMaxOutDataSize, nCurBitsOffset, nCurBitShift
    call,    \* the last writer call: its arguments and the writer it was applied to
    nOps,    \* number of writer calls made (bounded)
    cmp,     \* salvador_compressor: flags, max_offset, best_match, stats, ...
    blk,     \* the frame of salvador_write_block: arguments and locals
    drv,     \* the frame of salvador_compress: arguments and locals
    fwd      \* the frame of salvador_optimize_forward: arguments, locals and the arrival table

vars == <<wr, call, nOps, cmp, blk, drv, fwd>>

(***************************************************************************)
(* salvador_write_bits                                                     *)
(***************************************************************************)
\* pOutData[idx] = v, where idx is relative to the block's output pointer
StoreByte(w, idx, v) ==
    LET a == w.base + idx
    IN  IF a < Len(w.pOutData)
        THEN [w EXCEPT !.pOutData = [@ EXCEPT ![a + 1] = v]]
        ELSE [w EXCEPT !.pOutData = Append(@, v)]

OrBit(byte, bit, shift) ==
    IF bit = 1 /\ BitOf(byte, shift) = 0 THEN byte + Pow2(shift) ELSE byte

\* variant: the capacity test lets one byte too many through
RECURSIVE write_bits_loop_off_by_one(_, _, _)
write_bits_loop_off_by_one(w, nValue, i) ==
    IF i < 0 THEN w
    ELSE IF w.nCurBitsOffset = INT_MIN /\ w.nOutOffset > w.nMaxOutDataSize
         THEN [w EXCEPT !.nOutOffset = -1]
    ELSE LET a == IF w.nCurBitsOffset = INT_MIN
                  THEN [StoreByte(w, w.nOutOffset, 0) EXCEPT
                           !.nCurBitsOffset = w.nOutOffset,
                           !.nCurBitShift = 7,
                           !.nOutOffset = w.nOutOffset + 1]
                  ELSE w
             bit == BitOf(nValue, i)
             b == [a EXCEPT !.pOutData[a.base + a.nCurBitsOffset + 1] =
                                OrBit(@, bit, a.nCurBitShift),
                            !.nCurBitShift = @ - 1,
                            !.trace = Append(@, <<"bit", bit>>)]
             c == IF b.nCurBitShift = -1 THEN [b EXCEPT !.nCurBitsOffset = INT_MIN] ELSE b
         IN  write_bits_loop_off_by_one(c, nValue, i - 1)

RECURSIVE write_bits_loop(_, _, _)
write_bits_loop(w, nValue, i) ==
    IF i < 0 THEN w
    ELSE IF w.nCurBitsOffset = INT_MIN /\ w.nOutOffset >= w.nMaxOutDataSize
         THEN [w EXCEPT !.nOutOffset = -1]
    ELSE LET a == IF w.nCurBitsOffset = INT_MIN
                  THEN [StoreByte(w, w.nOutOffset, 0) EXCEPT
                           !.nCurBitsOffset = w.nOutOffset,
                           !.nCurBitShift = 7,
                           !.nOutOffset = w.nOutOffset + 1]
                  ELSE w
             bit == BitOf(nValue, i)
             b == [a EXCEPT !.pOutData[a.base + a.nCurBitsOffset + 1] =
                                OrBit(@, bit, a.nCurBitShift),
                            !.nCurBitShift = @ - 1,
                            !.trace = Append(@, <<"bit", bit>>)]
             c == IF b.nCurBitShift = -1 THEN [b EXCEPT !.nCurBitsOffset = INT_MIN] ELSE b
         IN  write_bits_loop(c, nValue, i - 1)

salvador_write_bits(w, nValue, nBits) ==
    IF w.nOutOffset < 0 THEN [w EXCEPT !.nOutOffset = -1]
    ELSE write_bits_loop(w, nValue, nBits - 1)

(***************************************************************************)
(* salvador_get_elias_size                                                 *)
(***************************************************************************)
\* for (i = 2; i <= nValue; i <<= 1) ;
RECURSIVE elias_top(_, _)
elias_top(i, nValue) == IF i <= nValue THEN elias_top(2 * i, nValue) ELSE i

\* while ((i >>= 1) > 0) { nBits++; nBits++; }
RECURSIVE elias_size_loop(_, _)
elias_size_loop(i, nBits) ==
    LET h == i \div 2
    IN  IF h > 0 THEN elias_size_loop(h, nBits + 2) ELSE nBits

salvador_get_elias_size(nValue) ==
    elias_size_loop(elias_top(2, nValue) \div 2, 0) + 1

(***************************************************************************)
(* salvador_write_elias_value                                              *)
(***************************************************************************)
\* (*nFirstBit) = ((*nFirstBit) & 0xfe) | bit
StoreFirstBit(w, nFirstBit, bit) ==
    [w EXCEPT !.pOutData[w.base + nFirstBit + 1] = (@ - (@ % 2)) + bit,
              !.trace = Append(@, <<"first", bit>>)]

RECURSIVE write_elias_loop(_, _, _, _, _)

\* variant: the data bits are never inverted
write_elias_value_never_inverted(w, nValue, nIsInverted, nFirstBit) ==
    write_elias_loop(w, nValue, 0, elias_top(2, nValue) \div 2, nFirstBit)

write_elias_loop(w, nValue, nIsInverted, i, nFirstBit) ==
    LET h == i \div 2
    IN  IF h > 0
        THEN LET a == IF nFirstBit # NULL
                      THEN StoreFirstBit(w, nFirstBit, 0)
                      ELSE salvador_write_bits(w, 0, 1)
                 set == ((nValue \div h) % 2) = 1
                 dataBit == IF nIsInverted # 0
                            THEN (IF set THEN 0 ELSE 1)
                            ELSE (IF set THEN 1 ELSE 0)
                 b == salvador_write_bits(a, dataBit, 1)
             IN  write_elias_loop(b, nValue, nIsInverted, h, NULL)
        ELSE IF nFirstBit # NULL
             THEN StoreFirstBit(w, nFirstBit, 1)
             ELSE salvador_write_bits(w, 1, 1)

salvador_write_elias_value(w, nValue, nIsInverted, nFirstBit) ==
    write_elias_loop(w, nValue, nIsInverted, elias_top(2, nValue) \div 2, nFirstBit)

(***************************************************************************)
(* Cost model and the length writers                                       *)
(***************************************************************************)
salvador_get_literals_varlen_size(nLength) ==
    IF nLength > 0 THEN TOKEN_SIZE + salvador_get_elias_size(nLength) ELSE 0

salvador_write_literals_varlen(w, nLength) ==
    salvador_write_elias_value(w, nLength, 0, NULL)

salvador_get_match_varlen_size_norep(nLength) == salvador_get_elias_size(nLength + 1)

salvador_get_match_varlen_size_rep(nLength) == salvador_get_elias_size(nLength + 1 + 1)

\* variant: a rep-match length is written like the length of a match with offset
write_match_varlen_no_rep_bias(w, nLength, nIsRepMatch, nFirstBit) ==
    salvador_write_elias_value(w, nLength + 1, 0, nFirstBit)

salvador_write_match_varlen(w, nLength, nIsRepMatch, nFirstBit) ==
    salvador_write_elias_value(w, nLength + 1 + (IF nIsRepMatch # 0 THEN 1 ELSE 0), 0, nFirstBit)

\* (x) >> 7 for x >= 0
Shr7(x) == x \div 128

\* variant: the low offset byte is charged eight bits
OFFSET_COST_whole_byte(offset) ==
    IF offset <= 128 THEN 8 ELSE 8 + salvador_get_elias_size(Shr7(offset - 1) + 1)

OFFSET_COST(offset) ==
    IF offset <= 128 THEN 8 ELSE 7 + salvador_get_elias_size(Shr7(offset - 1) + 1)

(***************************************************************************)
(* The cost the parser charges for each coding choice                      *)
(* (salvador_optimize_forward)                                             *)
(***************************************************************************)
\* cost after one more literal, nNumLiterals being the new run length
LiteralChoiceCost(nPrevCost, nNumLiterals) ==
    (nPrevCost + 8)
    - (IF nNumLiterals > 1 THEN salvador_get_literals_varlen_size(nNumLiterals - 1) ELSE 0)
    + salvador_get_literals_varlen_size(nNumLiterals)

\* cost of a match of k bytes with an offset
NoRepMatchChoiceCost(nPrevCost, nMatchOffset, k) ==
    (salvador_get_match_varlen_size_norep(k - MIN_ENCODED_MATCH_SIZE) + TOKEN_SIZE)
    + (OFFSET_COST(nMatchOffset) + nPrevCost)

\* variant: the token of a rep-match is not charged
RepMatchChoiceCost_no_token(nPrevCost, k) ==
    nPrevCost + salvador_get_match_varlen_size_rep(k - MIN_ENCODED_MATCH_SIZE)

\* cost of a rep-match of k bytes
RepMatchChoiceCost(nPrevCost, k) ==
    nPrevCost + (salvador_get_match_varlen_size_rep(k - MIN_ENCODED_MATCH_SIZE) + TOKEN_SIZE)

(***************************************************************************)
(* salvador_write_block                                                    *)
(***************************************************************************)
HasFlag(x, f) == (x \div f) % 2 = 1

\* memcpy(pOutData + nOutOffset, pInWindow + nInFirstLiteralOffset, nNumLiterals);
\* nOutOffset += nNumLiterals;
RECURSIVE CopyLiterals(_, _, _, _)
CopyLiterals(w, pInWindow, nFrom, n) ==
    IF n <= 0 THEN w
    ELSE CopyLiterals([StoreByte(w, w.nOutOffset, At(pInWindow, nFrom)) EXCEPT
                          !.nOutOffset = @ + 1,
                          !.trace = Append(@, <<"byte", At(pInWindow, nFrom)>>)],
                      pInWindow, nFrom + 1, n - 1)

\* variant: the token of the first literal run is not left out
wb_write_literals_always_token(w, pInWindow, nInFirstLiteralOffset, nNumLiterals, nIsFirstCommand) ==
    LET a == salvador_write_bits(w, 0, 1)
    IN  IF a.nOutOffset < 0 THEN a
        ELSE LET b == salvador_write_literals_varlen(a, nNumLiterals)
             IN  IF b.nOutOffset < 0 THEN b
                 ELSE IF (b.nOutOffset + nNumLiterals) > b.nMaxOutDataSize
                      THEN [b EXCEPT !.nOutOffset = -1]
                      ELSE CopyLiterals(b, pInWindow, nInFirstLiteralOffset, nNumLiterals)

\* the literals command: optional token, run length, raw bytes
wb_write_literals(w, pInWindow, nInFirstLiteralOffset, nNumLiterals, nIsFirstCommand) ==
    LET a == IF nIsFirstCommand = 0 THEN salvador_write_bits(w, 0, 1) ELSE w
    IN  IF a.nOutOffset < 0 THEN a
        ELSE LET b == salvador_write_literals_varlen(a, nNumLiterals)
             IN  IF b.nOutOffset < 0 THEN b
                 ELSE IF (b.nOutOffset + nNumLiterals) > b.nMaxOutDataSize
                      THEN [b EXCEPT !.nOutOffset = -1]
                      ELSE CopyLiterals(b, pInWindow, nInFirstLiteralOffset, nNumLiterals)

\* rep match: a 0 bit, then the match length
wb_write_rep_match(w, nEncodedMatchLen) ==
    LET a == salvador_write_bits(w, 0, 1)
    IN  IF a.nOutOffset < 0 THEN a
        ELSE salvador_write_match_varlen(a, nEncodedMatchLen, 1, NULL)

\* variant: the low offset bits are not complemented
LowOffsetByte_plain(nMatchOffset) == (((nMatchOffset - 1) % 128) * 2) % 256

\* (255 - ((nMatchOffset - 1) & 0x7f)) << 1, stored in an unsigned char
LowOffsetByte(nMatchOffset) == ((255 - ((nMatchOffset - 1) % 128)) * 2) % 256

\* match with offset: a 1 bit, the high offset bits, the low offset byte, the match length
wb_write_offset_match(w, nMatchOffset, nEncodedMatchLen, nIsInverted) ==
    LET a == salvador_write_bits(w, 1, 1)
    IN  IF a.nOutOffset < 0 THEN a
        ELSE LET b == salvador_write_elias_value(a, Shr7(nMatchOffset - 1) + 1, nIsInverted, NULL)
             IN  IF b.nOutOffset < 0 THEN b
                 ELSE IF b.nOutOffset >= b.nMaxOutDataSize
                      THEN [b EXCEPT !.nOutOffset = -1]
                      ELSE LET pFirstBit == b.nOutOffset
                               c == [StoreByte(b, b.nOutOffset, LowOffsetByte(nMatchOffset)) EXCEPT
                                        !.nOutOffset = @ + 1,
                                        !.trace = Append(@, <<"byte", LowOffsetByte(nMatchOffset)>>)]
                           IN  salvador_write_match_varlen(c, nEncodedMatchLen, 0, pFirstBit)

\* the end-of-data marker
wb_write_eod(w, nIsInverted) ==
    LET a == salvador_write_bits(w, 1, 1)
    IN  IF a.nOutOffset < 0 THEN a
        ELSE salvador_write_elias_value(a, EOD_VALUE, nIsInverted, NULL)

StatsLiterals(st, nNumLiterals) ==
    [st EXCEPT !.min_literals = IF nNumLiterals < @ \/ @ = -1 THEN nNumLiterals ELSE @,
               !.max_literals = IF nNumLiterals > @ THEN nNumLiterals ELSE @,
               !.total_literals = @ + nNumLiterals,
               !.literals_divisor = @ + 1]

StatsMatch(st, nMatchOffset, nMatchLen, nRepMatchOffset) ==
    LET a == [st EXCEPT
                 !.num_rep_matches = IF nMatchOffset = nRepMatchOffset THEN @ + 1 ELSE @,
                 !.min_offset = IF nMatchOffset < @ \/ @ = -1 THEN nMatchOffset ELSE @,
                 !.max_offset = IF nMatchOffset > @ THEN nMatchOffset ELSE @,
                 !.total_offsets = @ + nMatchOffset,
                 !.min_match_len = IF nMatchLen < @ \/ @ = -1 THEN nMatchLen ELSE @,
                 !.max_match_len = IF nMatchLen > @ THEN nMatchLen ELSE @,
                 !.total_match_lens = @ + nMatchLen,
                 !.match_divisor = @ + 1]
    IN  IF nMatchOffset = 1
        THEN [a EXCEPT !.min_rle1_len = IF nMatchLen < @ \/ @ = -1 THEN nMatchLen ELSE @,
                       !.max_rle1_len = IF nMatchLen > @ THEN nMatchLen ELSE @,
                       !.total_rle1_lens = @ + nMatchLen,
                       !.rle1_divisor = @ + 1]
        ELSE IF nMatchOffset = 2
        THEN [a EXCEPT !.min_rle2_len = IF nMatchLen < @ \/ @ = -1 THEN nMatchLen ELSE @,
                       !.max_rle2_len = IF nMatchLen > @ THEN nMatchLen ELSE @,
                       !.total_rle2_lens = @ + nMatchLen,
                       !.rle2_divisor = @ + 1]
        ELSE a

StatsSafeDist(st, nCurSafeDist) ==
    [st EXCEPT !.safe_dist = IF nCurSafeDist >= 0 /\ @ < nCurSafeDist THEN nCurSafeDist ELSE @,
               !.commands_divisor = @ + 1]

\* pBestMatch + i, with pBestMatch == best_match - nStartOffset
BestMatchAt(i) == At(cmp.best_match, i - blk.nStartOffset)

\* variant: the format maximum is not tested
wb_offset_invalid_no_format_max(nMatchOffset, nMaxOffset) ==
    nMatchOffset < MIN_OFFSET \/ nMatchOffset > nMaxOffset

\* the offset test of a match command
wb_offset_invalid(nMatchOffset, nMaxOffset) ==
    nMatchOffset < MIN_OFFSET \/ nMatchOffset > nMaxOffset \/ nMatchOffset > MAX_OFFSET

\* an emitter that takes every entry of length 1 for a match
wb_is_match_any_single(pMatch, nRepMatchOffset, nNumLiterals) ==
    pMatch.length >= 1

\* the test that makes position i a match command
wb_is_match(pMatch, nRepMatchOffset, nNumLiterals) ==
    pMatch.length >= 2 \/
    (pMatch.length >= 1 /\ pMatch.offset = nRepMatchOffset /\ nNumLiterals # 0)

\* number of bits in the output stream so far
BitsWritten(w) ==
    8 * Len(w.pOutData) - (IF w.nCurBitsOffset # INT_MIN THEN w.nCurBitShift + 1 ELSE 0)

\* loop body, literal branch
WB_Literal ==
    /\ blk.pc = "loop"
    /\ blk.i < blk.nEndOffset
    /\ ~wb_is_match(BestMatchAt(blk.i), blk.nRepMatchOffset, blk.nNumLiterals)
    /\ blk' = [blk EXCEPT
                  !.nInFirstLiteralOffset = IF blk.nNumLiterals = 0 THEN blk.i ELSE @,
                  !.nNumLiterals = @ + 1,
                  !.i = @ + 1,
                  !.cost = LiteralChoiceCost(@, blk.nNumLiterals + 1)]
    /\ UNCHANGED <<wr, call, nOps, cmp, drv, fwd>>

\* the record kept of the last command
LastCommand(kind, nMatchOffset, nMatchLen, pre) ==
    [kind |-> kind, nMatchOffset |-> nMatchOffset, nMatchLen |-> nMatchLen,
     nNumLiterals |-> blk.nNumLiterals,
     nInFirstLiteralOffset |-> blk.nInFirstLiteralOffset,
     t0 |-> Len(wr.trace), pre |-> pre]

\* return -1 from salvador_write_block
WB_Fail(w, st, last) ==
    /\ blk' = [blk EXCEPT !.pc = "done", !.ret = -1, !.last = last]
    /\ wr' = w
    /\ cmp' = [cmp EXCEPT !.stats = st]

\* the pending literals of a match command or of the end of the block
wb_pending_literals(w) ==
    IF blk.nNumLiterals # 0
    THEN wb_write_literals(w, blk.pInWindow, blk.nInFirstLiteralOffset,
                           blk.nNumLiterals, blk.nIsFirstCommand)
    ELSE w

\* the match of a match command
wb_write_match(w, nMatchOffset, nMatchLen) ==
    IF nMatchOffset = blk.nRepMatchOffset /\ blk.nNumLiterals # 0
    THEN wb_write_rep_match(w, nMatchLen - 2)
    ELSE wb_write_offset_match(w, nMatchOffset, nMatchLen - 2,
                               IF HasFlag(cmp.flags, FLG_IS_INVERTED) THEN 1 ELSE 0)

\* loop body, match branch
WB_Match ==
    /\ blk.pc = "loop"
    /\ blk.i < blk.nEndOffset
    /\ wb_is_match(BestMatchAt(blk.i), blk.nRepMatchOffset, blk.nNumLiterals)
    /\ \E pMatch \in {BestMatchAt(blk.i)} :
       \E st1 \in {IF blk.nNumLiterals # 0
                   THEN StatsLiterals(cmp.stats, blk.nNumLiterals) ELSE cmp.stats} :
          IF wb_offset_invalid(pMatch.offset, cmp.max_offset)
          THEN WB_Fail(wr, cmp.stats, LastCommand("fail", pMatch.offset, pMatch.length, wr))
          ELSE IF blk.nIsFirstCommand # 0 /\ blk.nNumLiterals = 0
          THEN WB_Fail(wr, cmp.stats, LastCommand("fail", pMatch.offset, pMatch.length, wr))
          ELSE \E w1 \in {wb_pending_literals(wr)} :
               IF w1.nOutOffset < 0
               THEN WB_Fail(w1, st1, LastCommand("fail", pMatch.offset, pMatch.length, wr))
               ELSE \E w2 \in {wb_write_match(w1, pMatch.offset, pMatch.length)} :
                    IF w2.nOutOffset < 0
                    THEN WB_Fail(w2, st1, LastCommand("fail", pMatch.offset, pMatch.length, wr))
                    ELSE \E isRep \in {pMatch.offset = blk.nRepMatchOffset /\ blk.nNumLiterals # 0},
                            i1 \in {blk.i + pMatch.length} :
                         /\ wr' = w2
                         /\ cmp' = [cmp EXCEPT !.stats =
                                       StatsSafeDist(
                                           StatsMatch(st1, pMatch.offset, pMatch.length,
                                                      blk.nRepMatchOffset),
                                           (i1 - blk.nStartOffset) - w2.nOutOffset)]
                         /\ blk' = [blk EXCEPT
                                       !.nNumLiterals = 0,
                                       !.nIsFirstCommand = IF blk.nNumLiterals # 0 THEN 0 ELSE @,
                                       !.nRepMatchOffset = pMatch.offset,
                                       !.i = i1,
                                       !.cost = IF isRep
                                                THEN RepMatchChoiceCost(@, pMatch.length)
                                                ELSE NoRepMatchChoiceCost(@, pMatch.offset,
                                                                          pMatch.length),
                                       !.last = LastCommand(IF isRep THEN "rep" ELSE "match",
                                                            pMatch.offset, pMatch.length, w1),
                                       !.matches = Append(@, pMatch.offset),
                                       !.spans = (IF blk.nNumLiterals # 0
                                                  THEN Append(@, [pos |-> blk.nInFirstLiteralOffset,
                                                                  len |-> blk.nNumLiterals])
                                                  ELSE @)
                                                 \o <<[pos |-> blk.i, len |-> pMatch.length]>>]
    /\ UNCHANGED <<call, nOps, drv, fwd>>

\* after the loop: final literals and end-of-data marker, or deferred literals
WB_End ==
    /\ blk.pc = "loop"
    /\ blk.i >= blk.nEndOffset
    /\ IF HasFlag(blk.nBlockFlags, 2)
       THEN \E st1 \in {StatsLiterals(cmp.stats, blk.nNumLiterals)},
               w1 \in {wb_pending_literals(wr)} :
            IF w1.nOutOffset < 0
            THEN /\ WB_Fail(w1, st1, LastCommand("fail", 0, 0, wr))
                 /\ drv' = [drv EXCEPT !.nCurFinalLiterals = 0]
            ELSE \E w2 \in {wb_write_eod(w1, IF HasFlag(cmp.flags, FLG_IS_INVERTED)
                                             THEN 1 ELSE 0)} :
                 IF w2.nOutOffset < 0
                 THEN /\ WB_Fail(w2, st1, LastCommand("fail", 0, 0, w1))
                      /\ drv' = [drv EXCEPT !.nCurFinalLiterals = 0]
                 ELSE /\ wr' = w2
                      /\ cmp' = [cmp EXCEPT !.stats = st1]
                      /\ blk' = [blk EXCEPT !.pc = "done", !.ret = w2.nOutOffset,
                                            !.nNumLiterals = 0,
                                            !.nIsFirstCommand =
                                                IF blk.nNumLiterals # 0 THEN 0 ELSE @,
                                            !.last = LastCommand("eod", 0, 0, w1),
                                            !.spans =
                                                IF blk.nNumLiterals # 0
                                                THEN Append(@, [pos |-> blk.nInFirstLiteralOffset,
                                                                len |-> blk.nNumLiterals])
                                                ELSE @]
                      /\ drv' = [drv EXCEPT !.nCurFinalLiterals = 0,
                                            !.nCurRepMatchOffset = blk.nRepMatchOffset]
       ELSE /\ wr' = wr
            /\ cmp' = cmp
            /\ blk' = [blk EXCEPT !.pc = "done", !.ret = wr.nOutOffset,
                                  !.last = LastCommand("defer", 0, 0, wr)]
            /\ drv' = [drv EXCEPT !.nCurFinalLiterals = blk.nNumLiterals,
                                  !.nCurRepMatchOffset = blk.nRepMatchOffset]
    /\ UNCHANGED <<call, nOps, fwd>>

(***************************************************************************)
(* salvador_optimize_forward: the arrival table                            *)
(***************************************************************************)
\* constants of the headers (shrink.h, matchfinder.h), which are not part of src/;
\* NARRIVALS_PER_POSITION is scaled down
NARRIVALS_PER_POSITION == 4
NMATCHES_PER_INDEX == 64
LEAVE_ALONE_MATCH_SIZE == 340
LCP_MAX == 16383

\* the cost every slot is initialised with; "& 0x3fffffff" maps it to 0
ARRIVAL_COST_INIT == 1073741824

\* a slot after the memset and the cost initialisation; from_slot = 0 marks it empty
EmptyArrival ==
    [cost |-> ARRIVAL_COST_INIT, from_pos |-> 0, from_slot |-> 0, rep_offset |-> 0,
     rep_pos |-> 0, match_len |-> 0, num_literals |-> 0, score |-> 0, n0 |-> 0]

EmptyRow == [s \in 1..NARRIVALS_PER_POSITION |-> EmptyArrival]

\* the table at the start of the sweep: only slot 0 of nStartOffset is set
InitArrivals(nStartOffset, nEndOffset, nRepMatchOffset) ==
    [p \in 1..((nEndOffset - nStartOffset) + 1) |->
        IF p = 1
        THEN [EmptyRow EXCEPT ![1] = [EmptyArrival EXCEPT !.from_slot = -1,
                                                          !.rep_offset = nRepMatchOffset]]
        ELSE EmptyRow]

\* cur_arrival[j].cost & 0x3fffffff
PrevCost(a) == a.cost % ARRIVAL_COST_INIT

\* the j the loop "for (j = 0; j < nArrivalsPerPosition && cur_arrival[j].from_slot; j++)" ends with
RECURSIVE NumArrivals(_, _, _)
NumArrivals(row, j, nArrivalsPerPosition) ==
    IF j < nArrivalsPerPosition /\ At(row, j).from_slot # 0
    THEN NumArrivals(row, j + 1, nArrivalsPerPosition)
    ELSE j

\* the test a candidate passes before it is looked at: better than slot nSlot
of_admits(row, nCost, nScore, nSlot) ==
    \/ nCost < At(row, nSlot).cost
    \/ (nCost = At(row, nSlot).cost /\ nScore < At(row, nSlot).score)

\* first scan: over the cheaper arrivals; <<n, exists>>
RECURSIVE of_scan_cheaper(_, _, _, _)
of_scan_cheaper(row, n, nCost, nRepOffset) ==
    IF At(row, n).cost < nCost
    THEN IF At(row, n).rep_offset = nRepOffset THEN <<n, TRUE>>
         ELSE of_scan_cheaper(row, n + 1, nCost, nRepOffset)
    ELSE <<n, FALSE>>

\* a second scan that stops at once: the candidate goes before the arrivals of equal cost
of_scan_equal_none(row, n, nCost, nScore, nRepOffset) ==
    <<n, FALSE>>

\* second scan: over the arrivals of equal cost and no greater score; <<n, exists>>
RECURSIVE of_scan_equal(_, _, _, _, _)
of_scan_equal(row, n, nCost, nScore, nRepOffset) ==
    IF At(row, n).cost = nCost /\ nScore >= At(row, n).score
    THEN IF At(row, n).rep_offset = nRepOffset THEN <<n, TRUE>>
         ELSE of_scan_equal(row, n + 1, nCost, nScore, nRepOffset)
    ELSE <<n, FALSE>>

\* third scan: the remaining arrivals of equal cost; exists
RECURSIVE of_scan_rest(_, _, _, _, _)
of_scan_rest(row, nn, nCost, nRepOffset, nArrivalsPerPosition) ==
    IF nn < nArrivalsPerPosition /\ At(row, nn).cost = nCost
    THEN IF At(row, nn).rep_offset = nRepOffset THEN TRUE
         ELSE of_scan_rest(row, nn + 1, nCost, nRepOffset, nArrivalsPerPosition)
    ELSE FALSE

\* a shift that does not stop at an arrival of the same rep_offset
RECURSIVE of_shift_end_keep(_, _, _, _)
of_shift_end_keep(row, z, nRepOffset, nArrivalsPerPosition) ==
    IF z < nArrivalsPerPosition - 1 /\ At(row, z).from_slot # 0
    THEN of_shift_end_keep(row, z + 1, nRepOffset, nArrivalsPerPosition)
    ELSE z

\* the slot the shift ends at: an arrival of the same rep_offset, an empty slot or the last slot
RECURSIVE of_shift_end(_, _, _, _)
of_shift_end(row, z, nRepOffset, nArrivalsPerPosition) ==
    IF z < nArrivalsPerPosition - 1 /\ At(row, z).from_slot # 0
    THEN IF At(row, z).rep_offset = nRepOffset THEN z
         ELSE of_shift_end(row, z + 1, nRepOffset, nArrivalsPerPosition)
    ELSE z

\* memmove(&pDestSlots[n + 1], &pDestSlots[n], sizeof(salvador_arrival) * (z - n)) and the
\* store of the candidate into slot n; n0 keeps the slot an arrival was stored into
of_store(row, n, z, cand) ==
    [s \in 1..Len(row) |->
        IF s - 1 = n THEN [cand EXCEPT !.n0 = n]
        ELSE IF s - 1 > n /\ s - 1 <= z THEN row[s - 1]
        ELSE row[s]]

\* an admitted candidate: the three scans, then the insertion when n < nLimit
of_place(row, cand, nArrivalsPerPosition, nLimit) ==
    LET s1 == of_scan_cheaper(row, 0, cand.cost, cand.rep_offset)
        s2 == of_scan_equal(row, s1[1], cand.cost, cand.score, cand.rep_offset)
    IN  IF s1[2] \/ s2[2] \/ ~(s2[1] < nLimit)
           \/ of_scan_rest(row, s2[1], cand.cost, cand.rep_offset, nArrivalsPerPosition)
        THEN row
        ELSE of_store(row, s2[1],
                      of_shift_end(row, s2[1], cand.rep_offset, nArrivalsPerPosition), cand)

\* one candidate offered to the slots of its destination position
of_insert(row, cand, nArrivalsPerPosition, nSlot, nLimit) ==
    IF of_admits(row, cand.cost, cand.score, nSlot)
    THEN of_place(row, cand, nArrivalsPerPosition, nLimit)
    ELSE row

(***************************************************************************)
(* salvador_optimize_forward: the successors of one position               *)
(***************************************************************************)
\* pInWindow[p]
ByteAt(pInWindow, p) == At(pInWindow, p)

\* the run-length table built by salvador_optimize_and_write_block: rle_len[p] is the
\* number of bytes equal to pInWindow[p] from p on, within [0, nEndOffset)
RECURSIVE rle_len(_, _, _)
rle_len(pInWindow, nEndOffset, p) ==
    IF p + 1 < nEndOffset /\ ByteAt(pInWindow, p + 1) = ByteAt(pInWindow, p)
    THEN 1 + rle_len(pInWindow, nEndOffset, p + 1)
    ELSE 1

\* the comparison loops that extend a match of nLen bytes at nPos with nOffset, up to nMaxLen
RECURSIVE ExtendMatch(_, _, _, _, _)
ExtendMatch(pInWindow, nPos, nOffset, nLen, nMaxLen) ==
    IF nLen < nMaxLen /\ ByteAt(pInWindow, (nPos + nLen) - nOffset) = ByteAt(pInWindow, nPos + nLen)
    THEN ExtendMatch(pInWindow, nPos, nOffset, nLen + 1, nMaxLen)
    ELSE nLen

\* nCurRepLen: the two runs are skipped, the rest is compared; capped by the block end and LCP_MAX
RepLenAt(pInWindow, nPos, nOffset, nEndOffset) ==
    LET nMaxRepLen == Min(nEndOffset - nPos, LCP_MAX)
        nMinLen == Min(Min(rle_len(pInWindow, nEndOffset, nPos - nOffset),
                           rle_len(pInWindow, nEndOffset, nPos)), nMaxRepLen)
    IN  ExtendMatch(pInWindow, nPos, nOffset, nMinLen, nMaxRepLen)

\* the arrival a literal leads to from arrival a (slot j of position i)
LiteralArrival(a, i, j) ==
    [cost |-> LiteralChoiceCost(PrevCost(a), a.num_literals + 1),
     from_pos |-> i, from_slot |-> j + 1,
     rep_offset |-> a.rep_offset, rep_pos |-> a.rep_pos,
     match_len |-> 0, num_literals |-> a.num_literals + 1, score |-> a.score + 1, n0 |-> 0]

\* the arrival a match of k bytes with offset nMatchOffset leads to
NoRepMatchArrival(a, i, j, nMatchOffset, k, nScorePenalty) ==
    [cost |-> NoRepMatchChoiceCost(PrevCost(a), nMatchOffset, k),
     from_pos |-> i, from_slot |-> j + 1,
     rep_offset |-> nMatchOffset, rep_pos |-> i,
     match_len |-> k, num_literals |-> 0, score |-> a.score + nScorePenalty, n0 |-> 0]

\* variant: a rep-match successor that keeps the rep_pos of the arrival it follows
RepMatchArrival_keep_pos(a, i, j, k) ==
    [cost |-> RepMatchChoiceCost(PrevCost(a), k),
     from_pos |-> i, from_slot |-> j + 1,
     rep_offset |-> a.rep_offset, rep_pos |-> a.rep_pos,
     match_len |-> k, num_literals |-> 0, score |-> a.score + 2, n0 |-> 0]

\* the arrival a rep-match of k bytes leads to
RepMatchArrival(a, i, j, k) ==
    [cost |-> RepMatchChoiceCost(PrevCost(a), k),
     from_pos |-> i, from_slot |-> j + 1,
     rep_offset |-> a.rep_offset, rep_pos |-> i,
     match_len |-> k, num_literals |-> 0, score |-> a.score + 2, n0 |-> 0]

\* the literal loop of position i: every arrival of cur offers its successor to dest
RECURSIVE of_literals(_, _, _, _, _)
of_literals(cur, dest, i, j, nArrivalsPerPosition) ==
    IF j < nArrivalsPerPosition /\ At(cur, j).from_slot # 0
    THEN of_literals(cur,
                     of_insert(dest, LiteralArrival(At(cur, j), i, j), nArrivalsPerPosition,
                               nArrivalsPerPosition - 1, nArrivalsPerPosition),
                     i, j + 1, nArrivalsPerPosition)
    ELSE dest

\* a scan that finds no arrival able to take a rep-match
of_rep_arrivals_none(cur, pInWindow, i, nEndOffset, j, nNumArrivalsForThisPos) ==
    <<>>

\* nRepMatchArrivalIdx: the pairs <<j, nCurRepLen>> of the arrivals that can take a rep-match at i
RECURSIVE of_rep_arrivals(_, _, _, _, _, _)
of_rep_arrivals(cur, pInWindow, i, nEndOffset, j, nNumArrivalsForThisPos) ==
    IF j >= nNumArrivalsForThisPos THEN <<>>
    ELSE (IF /\ At(cur, j).num_literals # 0
             /\ At(cur, j).rep_offset # 0
             /\ i >= At(cur, j).rep_offset
             /\ ByteAt(pInWindow, i) = ByteAt(pInWindow, i - At(cur, j).rep_offset)
          THEN << <<j, RepLenAt(pInWindow, i, At(cur, j).rep_offset, nEndOffset)>> >>
          ELSE <<>>)
         \o of_rep_arrivals(cur, pInWindow, i, nEndOffset, j + 1, nNumArrivalsForThisPos)

\* nOverallMaxRepLen after the scan
RECURSIVE MaxRepLen(_)
MaxRepLen(reps) == IF Len(reps) = 0 THEN 0 ELSE Max(reps[1][2], MaxRepLen(Tail(reps)))

\* nNonRepMatchArrivalIdx: the first arrival a match with nMatchOffset can follow, or -1
RECURSIVE NonRepMatchArrivalIdx(_, _, _, _)
NonRepMatchArrivalIdx(cur, nMatchOffset, j, nNumArrivalsForThisPos) ==
    IF j >= nNumArrivalsForThisPos THEN -1
    ELSE IF nMatchOffset # At(cur, j).rep_offset \/ At(cur, j).num_literals = 0 THEN j
    ELSE NonRepMatchArrivalIdx(cur, nMatchOffset, j + 1, nNumArrivalsForThisPos)

\* the rep-match candidates of length k: the loop over nRepMatchArrivalIdx, left at the
\* first candidate that is not better than the last slot
RECURSIVE of_rep_inserts(_, _, _, _, _, _, _)
of_rep_inserts(dest, cur, reps, r, i, k, nArrivalsPerPosition) ==
    IF r > Len(reps) THEN dest
    ELSE IF reps[r][2] >= k
    THEN IF of_admits(dest, RepMatchChoiceCost(PrevCost(At(cur, reps[r][1])), k),
                      At(cur, reps[r][1]).score + 2, nArrivalsPerPosition - 1)
         THEN of_rep_inserts(of_place(dest, RepMatchArrival(At(cur, reps[r][1]), i, reps[r][1], k),
                                      nArrivalsPerPosition, nArrivalsPerPosition),
                             cur, reps, r + 1, i, k, nArrivalsPerPosition)
         ELSE dest
    ELSE of_rep_inserts(dest, cur, reps, r + 1, i, k, nArrivalsPerPosition)

\* the loop over the landing lengths with non-rep matches of a single byte let in
RECURSIVE of_lengths_single_norep(_, _, _, _, _, _, _, _, _, _, _)
of_lengths_single_norep(st, cur, reps, i, nStartOffset, nMatchOffset, nMatchLen, nScorePenalty, nIdx, k, nArrivalsPerPosition) ==
    IF k > nMatchLen THEN st
    ELSE
      LET p == ((i + k) - nStartOffset) + 1
          isRep == k > st.nOverallMinRepLen /\ k <= st.nOverallMaxRepLen
          row1 == IF k >= 1 /\ nIdx >= 0
                  THEN of_insert(st.arrival[p],
                                 NoRepMatchArrival(At(cur, nIdx), i, nIdx, nMatchOffset, k,
                                                   nScorePenalty),
                                 nArrivalsPerPosition, nArrivalsPerPosition - 2,
                                 nArrivalsPerPosition - 1)
                  ELSE st.arrival[p]
          row2 == IF isRep
                  THEN of_rep_inserts(row1, cur, reps, 1, i, k, nArrivalsPerPosition)
                  ELSE row1
      IN  of_lengths_single_norep([arrival |-> [st.arrival EXCEPT ![p] = row2],
                      nOverallMinRepLen |->
                          IF isRep /\ k <= LEAVE_ALONE_MATCH_SIZE THEN k
                          ELSE st.nOverallMinRepLen,
                      nOverallMaxRepLen |->
                          IF isRep /\ k > LEAVE_ALONE_MATCH_SIZE /\ st.nOverallMaxRepLen = k
                          THEN st.nOverallMaxRepLen - 1
                          ELSE st.nOverallMaxRepLen],
                     cur, reps, i, nStartOffset, nMatchOffset, nMatchLen, nScorePenalty, nIdx,
                     k + 1, nArrivalsPerPosition)

\* the loop over the landing lengths with non-rep matches tested against the last slot
RECURSIVE of_lengths_whole_row(_, _, _, _, _, _, _, _, _, _, _)
of_lengths_whole_row(st, cur, reps, i, nStartOffset, nMatchOffset, nMatchLen, nScorePenalty, nIdx, k, nArrivalsPerPosition) ==
    IF k > nMatchLen THEN st
    ELSE
      LET p == ((i + k) - nStartOffset) + 1
          isRep == k > st.nOverallMinRepLen /\ k <= st.nOverallMaxRepLen
          row1 == IF k >= 2 /\ nIdx >= 0
                  THEN of_insert(st.arrival[p],
                                 NoRepMatchArrival(At(cur, nIdx), i, nIdx, nMatchOffset, k,
                                                   nScorePenalty),
                                 nArrivalsPerPosition, nArrivalsPerPosition - 1,
                                 nArrivalsPerPosition)
                  ELSE st.arrival[p]
          row2 == IF isRep
                  THEN of_rep_inserts(row1, cur, reps, 1, i, k, nArrivalsPerPosition)
                  ELSE row1
      IN  of_lengths_whole_row([arrival |-> [st.arrival EXCEPT ![p] = row2],
                      nOverallMinRepLen |->
                          IF isRep /\ k <= LEAVE_ALONE_MATCH_SIZE THEN k
                          ELSE st.nOverallMinRepLen,
                      nOverallMaxRepLen |->
                          IF isRep /\ k > LEAVE_ALONE_MATCH_SIZE /\ st.nOverallMaxRepLen = k
                          THEN st.nOverallMaxRepLen - 1
                          ELSE st.nOverallMaxRepLen],
                     cur, reps, i, nStartOffset, nMatchOffset, nMatchLen, nScorePenalty, nIdx,
                     k + 1, nArrivalsPerPosition)

\* the loop over the landing lengths k of one match (nMatchOffset, nMatchLen) at position i.
\* st holds the arrival table and nOverallMinRepLen, nOverallMaxRepLen; row p of the table is
\* position nStartOffset + p - 1
RECURSIVE of_lengths(_, _, _, _, _, _, _, _, _, _, _)
of_lengths(st, cur, reps, i, nStartOffset, nMatchOffset, nMatchLen, nScorePenalty, nIdx, k, nArrivalsPerPosition) ==
    IF k > nMatchLen THEN st
    ELSE
      LET p == ((i + k) - nStartOffset) + 1
          isRep == k > st.nOverallMinRepLen /\ k <= st.nOverallMaxRepLen
          row1 == IF k >= 2 /\ nIdx >= 0
                  THEN of_insert(st.arrival[p],
                                 NoRepMatchArrival(At(cur, nIdx), i, nIdx, nMatchOffset, k,
                                                   nScorePenalty),
                                 nArrivalsPerPosition, nArrivalsPerPosition - 2,
                                 nArrivalsPerPosition - 1)
                  ELSE st.arrival[p]
          row2 == IF isRep
                  THEN of_rep_inserts(row1, cur, reps, 1, i, k, nArrivalsPerPosition)
                  ELSE row1
      IN  of_lengths([arrival |-> [st.arrival EXCEPT ![p] = row2],
                      nOverallMinRepLen |->
                          IF isRep /\ k <= LEAVE_ALONE_MATCH_SIZE THEN k
                          ELSE st.nOverallMinRepLen,
                      nOverallMaxRepLen |->
                          IF isRep /\ k > LEAVE_ALONE_MATCH_SIZE /\ st.nOverallMaxRepLen = k
                          THEN st.nOverallMaxRepLen - 1
                          ELSE st.nOverallMaxRepLen],
                     cur, reps, i, nStartOffset, nMatchOffset, nMatchLen, nScorePenalty, nIdx,
                     k + 1, nArrivalsPerPosition)

\* one turn of the loop over d: the match (nOrigMatchOffset - d, nOrigMatchLen - d)
of_depth_step(st, pInWindow, i, nStartOffset, nEndOffset, pMatch, d, nArrivalsPerPosition) ==
    LET cur == st.arrival[(i - nStartOffset) + 1]
        nNum == NumArrivals(cur, 0, nArrivalsPerPosition)
        nMatchOffset == pMatch.offset - d
        nMatchLen == IF (i + (pMatch.length - d)) > nEndOffset THEN nEndOffset - i
                     ELSE pMatch.length - d
    IN  of_lengths(st, cur, of_rep_arrivals(cur, pInWindow, i, nEndOffset, 0, nNum),
                   i, nStartOffset, nMatchOffset, nMatchLen,
                   3 + ((pMatch.length \div 32768) % 2),
                   NonRepMatchArrivalIdx(cur, nMatchOffset, 0, nNum),
                   IF nMatchLen >= LEAVE_ALONE_MATCH_SIZE THEN nMatchLen ELSE 1,
                   nArrivalsPerPosition)

(***************************************************************************)
(* salvador_insert_forward_match                                           *)
(***************************************************************************)
\* the index of the entry with nMatchOffset among the matches of a position, or -1
RECURSIVE FindOffset(_, _, _)
FindOffset(entries, nMatchOffset, r) ==
    IF r >= Len(entries) THEN -1
    ELSE IF At(entries, r).offset = nMatchOffset THEN r
    ELSE FindOffset(entries, nMatchOffset, r + 1)

\* the match (nMatchOffset, nCurRepLen) offered to the entries of a position: an entry
\* with that offset is lengthened if it is shorter and has no depth, otherwise the match
\* is appended
ifm_store(entries, nMatchOffset, nCurRepLen) ==
    LET r == FindOffset(entries, nMatchOffset, 0)
    IN  IF r >= 0
        THEN IF At(entries, r).length < nCurRepLen /\ At(entries, r).depth % 16384 = 0
             THEN [entries EXCEPT ![r + 1] = [length |-> nCurRepLen, offset |-> nMatchOffset,
                                              depth |-> 0]]
             ELSE entries
        ELSE Append(entries, [length |-> nCurRepLen, offset |-> nMatchOffset, depth |-> 0])

\* st holds the match table and the visited table; the loop over the arrivals of position i
\* from slot j on, at insertion depth nDepth; seen is the history of the offsets projected
\* through a position since the table was cleared, each with what was done: "new" when
\* the bytes were compared and the match entered the table as a new entry, "eq" when the
\* bytes were compared and the table already held the offset, "ne" when the comparison
\* failed on the first byte, "skip" when nothing was compared
RECURSIVE ifm_loop(_, _, _, _, _, _, _, _, _)
ifm_loop(st, arrival, pInWindow, i, nMatchOffset, nStartOffset, nEndOffset, nDepth, j) ==
    IF ~(j < NARRIVALS_PER_POSITION /\ At(arrival[(i - nStartOffset) + 1], j).from_slot # 0)
    THEN st
    ELSE
      LET a == At(arrival[(i - nStartOffset) + 1], j)
          nRepPos == a.rep_pos
          p == (nRepPos - nStartOffset) + 1
      IN  IF /\ a.num_literals # 0
             /\ nMatchOffset # a.rep_offset /\ a.rep_offset # 0
             /\ nRepPos >= nStartOffset
             /\ (nRepPos + 1) < nEndOffset
             /\ st.visited[p].outer # nMatchOffset
          THEN
            IF /\ st.visited[p].inner # nMatchOffset
               /\ nRepPos >= nMatchOffset
               /\ Len(st.match[p]) < NMATCHES_PER_INDEX
               /\ ByteAt(pInWindow, nRepPos) = ByteAt(pInWindow, nRepPos - nMatchOffset)
            THEN
              LET entries == ifm_store(st.match[p], nMatchOffset,
                                       RepLenAt(pInWindow, nRepPos, nMatchOffset, nEndOffset))
                  st1 == [match |-> [st.match EXCEPT ![p] = entries],
                          visited |-> [st.visited EXCEPT ![p] =
                                          [outer |-> nMatchOffset, inner |-> nMatchOffset,
                                           seen |-> Append(st.visited[p].seen,
                                              <<nMatchOffset,
                                                IF FindOffset(st.match[p], nMatchOffset, 0) < 0
                                                THEN "new" ELSE "eq">>)]]]
              IN  ifm_loop(IF FindOffset(st.match[p], nMatchOffset, 0) < 0 /\ nDepth < 9
                           THEN ifm_loop(st1, arrival, pInWindow, nRepPos, nMatchOffset,
                                         nStartOffset, nEndOffset, nDepth + 1, 0)
                           ELSE st1,
                           arrival, pInWindow, i, nMatchOffset, nStartOffset, nEndOffset,
                           nDepth, j + 1)
            ELSE ifm_loop([st EXCEPT !.visited[p].outer = nMatchOffset,
                                     !.visited[p].seen =
                                         IF /\ st.visited[p].inner # nMatchOffset
                                            /\ nRepPos >= nMatchOffset
                                            /\ Len(st.match[p]) < NMATCHES_PER_INDEX
                                         THEN Append(@, <<nMatchOffset, "ne">>)
                                         ELSE Append(@, <<nMatchOffset, "skip">>)],
                          arrival, pInWindow, i, nMatchOffset, nStartOffset, nEndOffset,
                          nDepth, j + 1)
          ELSE ifm_loop(st, arrival, pInWindow, i, nMatchOffset, nStartOffset, nEndOffset,
                        nDepth, j + 1)

\* a variant that forgets the offsets of the visited table at every call
salvador_insert_forward_match_forget(st, arrival, pInWindow, i, nMatchOffset, nStartOffset, nEndOffset, nDepth) ==
    ifm_loop([st EXCEPT !.visited = [q \in DOMAIN @ |-> [@[q] EXCEPT !.outer = 0, !.inner = 0]]],
             arrival, pInWindow, i, nMatchOffset, nStartOffset, nEndOffset, nDepth, 0)

salvador_insert_forward_match(st, arrival, pInWindow, i, nMatchOffset, nStartOffset, nEndOffset, nDepth) ==
    ifm_loop(st, arrival, pInWindow, i, nMatchOffset, nStartOffset, nEndOffset, nDepth, 0)

\* the calls made by the sweep for match m of position i, one for each depth
RECURSIVE of_forward_reps(_, _, _, _, _, _, _, _)
of_forward_reps(st, arrival, pInWindow, i, nStartOffset, nEndOffset, pMatch, ds) ==
    IF Len(ds) = 0 THEN st
    ELSE of_forward_reps(
             salvador_insert_forward_match(st, arrival, pInWindow, i, pMatch.offset - ds[1],
                                           nStartOffset, nEndOffset, 0),
             arrival, pInWindow, i, nStartOffset, nEndOffset, pMatch, Tail(ds))

(***************************************************************************)
(* salvador_optimize_forward: the sweep                                    *)
(***************************************************************************)
NoMatch == [length |-> 0, offset |-> 0, depth |-> 0]

\* match[m] and match_depth[m] of position i: the entries after the stored ones are zero
MatchEntry(match, nStartOffset, i, m) ==
    IF m < Len(match[(i - nStartOffset) + 1]) THEN At(match[(i - nStartOffset) + 1], m)
    ELSE NoMatch

\* entry of salvador_optimize_forward; a block larger than block_size returns at once
EnterOptimizeForward(pInWindow, nStartOffset, nEndOffset, nInsertForwardReps, nCurRepMatchOffset, nArrivalsPerPosition, nBlockFlags, nBlockSize) ==
    [pc |-> IF (nEndOffset - nStartOffset) > nBlockSize THEN "done"
            ELSE IF nStartOffset = nEndOffset THEN "walk" ELSE "literals",
     pInWindow |-> pInWindow, nStartOffset |-> nStartOffset, nEndOffset |-> nEndOffset,
     nInsertForwardReps |-> nInsertForwardReps, nCurRepMatchOffset |-> nCurRepMatchOffset,
     nArrivalsPerPosition |-> nArrivalsPerPosition, nBlockFlags |-> nBlockFlags,
     i |-> nStartOffset, m |-> 0, nOverallMinRepLen |-> 0, nOverallMaxRepLen |-> 0]

\* the tables of the compressor at the entry: every slot empty but the start arrival, and
\* the visited table cleared when forward reps are inserted
of_enter_tables(c, nStartOffset, nEndOffset, nInsertForwardReps, nCurRepMatchOffset) ==
    IF (nEndOffset - nStartOffset) > c.block_size THEN c
    ELSE [c EXCEPT !.arrival = InitArrivals(nStartOffset, nEndOffset, nCurRepMatchOffset),
                   !.visited = IF nInsertForwardReps # 0
                               THEN [p \in 1..(nEndOffset - nStartOffset) |->
                                        [outer |-> 0, inner |-> 0, seen |-> <<>>]]
                               ELSE @]

\* i++ of the sweep and the test of its loop
of_next_position(f) ==
    [f EXCEPT !.i = f.i + 1, !.m = 0,
              !.pc = IF f.i + 1 = f.nEndOffset THEN "walk" ELSE "literals"]

\* the arrivals of position i offer their literal successors to position i + 1; then the
\* rep-match scan of position i, unless i is the first position of the first block
OF_Literals ==
    /\ fwd.pc = "literals"
    /\ \E cur \in {cmp.arrival[(fwd.i - fwd.nStartOffset) + 1]} :
       \E dest \in {of_literals(cur, cmp.arrival[(fwd.i - fwd.nStartOffset) + 2], fwd.i, 0,
                                fwd.nArrivalsPerPosition)} :
          /\ cmp' = [cmp EXCEPT !.arrival[(fwd.i - fwd.nStartOffset) + 2] = dest]
          /\ IF (fwd.i = fwd.nStartOffset /\ HasFlag(fwd.nBlockFlags, 1))
                \/ MatchEntry(cmp.match, fwd.nStartOffset, fwd.i, 0).length = 0
             THEN fwd' = of_next_position(fwd)
             ELSE fwd' = [fwd EXCEPT
                     !.pc = "match", !.m = 0, !.nOverallMinRepLen = 0,
                     !.nOverallMaxRepLen =
                         MaxRepLen(of_rep_arrivals(cur, fwd.pInWindow, fwd.i, fwd.nEndOffset, 0,
                                       NumArrivals(cur, 0, fwd.nArrivalsPerPosition)))]
    /\ UNCHANGED <<wr, call, nOps, blk, drv>>

\* the depths the loop "for (d = 0; d <= nOrigMatchDepth; d += ...)" visits
MatchDepths(nOrigMatchDepth) == IF nOrigMatchDepth = 0 THEN <<0>> ELSE <<0, nOrigMatchDepth>>

\* the candidates of match m of position i, for each depth
RECURSIVE of_depths(_, _, _, _, _, _, _, _)
of_depths(st, pInWindow, i, nStartOffset, nEndOffset, pMatch, ds, nArrivalsPerPosition) ==
    IF Len(ds) = 0 THEN st
    ELSE of_depths(of_depth_step(st, pInWindow, i, nStartOffset, nEndOffset, pMatch, ds[1],
                                 nArrivalsPerPosition),
                   pInWindow, i, nStartOffset, nEndOffset, pMatch, Tail(ds), nArrivalsPerPosition)

\* one turn of the loop over the matches of position i: for each depth the forward-rep
\* insertion (first pass only) and the candidates of every landing length
OF_Match ==
    /\ fwd.pc = "match"
    /\ \E pMatch \in {MatchEntry(cmp.match, fwd.nStartOffset, fwd.i, fwd.m)} :
       \E st \in {of_depths([arrival |-> cmp.arrival,
                             nOverallMinRepLen |-> fwd.nOverallMinRepLen,
                             nOverallMaxRepLen |-> fwd.nOverallMaxRepLen],
                            fwd.pInWindow, fwd.i, fwd.nStartOffset, fwd.nEndOffset, pMatch,
                            MatchDepths(pMatch.depth % 16384), fwd.nArrivalsPerPosition)},
          fr \in {IF fwd.nInsertForwardReps # 0
                  THEN of_forward_reps([match |-> cmp.match, visited |-> cmp.visited],
                                       cmp.arrival, fwd.pInWindow, fwd.i, fwd.nStartOffset,
                                       fwd.nEndOffset, pMatch, MatchDepths(pMatch.depth % 16384))
                  ELSE [match |-> cmp.match, visited |-> cmp.visited]} :
          /\ cmp' = [cmp EXCEPT !.arrival = st.arrival, !.match = fr.match,
                                !.visited = fr.visited]
          /\ IF /\ fwd.m + 1 < NMATCHES_PER_INDEX
                /\ MatchEntry(fr.match, fwd.nStartOffset, fwd.i, fwd.m + 1).length # 0
                /\ pMatch.length < 512
             THEN fwd' = [fwd EXCEPT !.m = fwd.m + 1,
                                     !.nOverallMinRepLen = st.nOverallMinRepLen,
                                     !.nOverallMaxRepLen = st.nOverallMaxRepLen]
             ELSE fwd' = of_next_position(fwd)
    /\ UNCHANGED <<wr, call, nOps, blk, drv>>

\* variant: a walk that stops after the command that ends the block
of_walk_back_one_step(best, arrival, a, nStartOffset, nEndOffset) ==
    IF a.from_slot > 0 /\ a.from_pos >= 0 /\ a.from_pos < nEndOffset
    THEN [best EXCEPT ![(a.from_pos - nStartOffset) + 1] =
             [length |-> a.match_len, offset |-> IF a.match_len # 0 THEN a.rep_offset ELSE 0]]
    ELSE best

\* the walk from slot 0 of the block end back to the start: the commands go to best_match
RECURSIVE of_walk_back(_, _, _, _, _)
of_walk_back(best, arrival, a, nStartOffset, nEndOffset) ==
    IF a.from_slot > 0 /\ a.from_pos >= 0 /\ a.from_pos < nEndOffset
    THEN of_walk_back([best EXCEPT ![(a.from_pos - nStartOffset) + 1] =
                          [length |-> a.match_len,
                           offset |-> IF a.match_len # 0 THEN a.rep_offset ELSE 0]],
                      arrival, At(arrival[(a.from_pos - nStartOffset) + 1], a.from_slot - 1),
                      nStartOffset, nEndOffset)
    ELSE best

OF_Walk ==
    /\ fwd.pc = "walk"
    /\ fwd' = [fwd EXCEPT !.pc = "done"]
    /\ cmp' = IF fwd.nInsertForwardReps = 0
              THEN [cmp EXCEPT !.best_match =
                       of_walk_back(cmp.best_match, cmp.arrival,
                                    At(cmp.arrival[(fwd.nEndOffset - fwd.nStartOffset) + 1], 0),
                                    fwd.nStartOffset, fwd.nEndOffset)]
              ELSE cmp
    /\ UNCHANGED <<wr, call, nOps, blk, drv>>

(***************************************************************************)
(* salvador_reduce_commands                                                *)
(***************************************************************************)
\* !memcmp(pInWindow + a, pInWindow + b, n)
SameBytes(pInWindow, a, b, n) ==
    \A k \in 0..(n - 1) : ByteAt(pInWindow, a + k) = ByteAt(pInWindow, b + k)

\* pBestMatch[i]; an index past the entries of the block reads pJunk
BestEntry(best, nStartOffset, i, pJunk) ==
    IF (i - nStartOffset) < Len(best) THEN best[(i - nStartOffset) + 1] ELSE pJunk

\* the literals that follow position nNextIndex: <<nNextIndex, nNextLiterals>> after the loop
RECURSIVE rc_next_literals(_, _, _, _, _)
rc_next_literals(best, nStartOffset, nEndOffset, nNextIndex, nNextLiterals) ==
    IF nNextIndex < nEndOffset /\ best[(nNextIndex - nStartOffset) + 1].length = 0
    THEN rc_next_literals(best, nStartOffset, nEndOffset, nNextIndex + 1, nNextLiterals + 1)
    ELSE <<nNextIndex, nNextLiterals>>

\* size of a run of n literals with its bytes, nothing for n = 0
rc_literals_size(n) ==
    IF n # 0 THEN salvador_get_literals_varlen_size(n) + (n * 8) ELSE 0

\* size of a match: as a rep-match, or with its offset
rc_match_size(bIsRep, nMatchOffset, nMatchLen) ==
    IF bIsRep
    THEN 1 + salvador_get_match_varlen_size_rep(nMatchLen - MIN_ENCODED_MATCH_SIZE)
    ELSE ((1 + salvador_get_elias_size(Shr7(nMatchOffset - 1) + 1)) + 7)
         + salvador_get_match_varlen_size_norep(nMatchLen - MIN_ENCODED_MATCH_SIZE)

\* pBestMatch[i + j].length = 0 for j in nFrom .. nTo - 1
rc_clear_lengths(best, nStartOffset, i, nFrom, nTo) ==
    [p \in 1..Len(best) |->
        IF p - 1 >= (i - nStartOffset) + nFrom /\ p - 1 < (i - nStartOffset) + nTo
        THEN [best[p] EXCEPT !.length = 0]
        ELSE best[p]]

\* variant: the match grows without the comparison of the bytes
rc_can_grow_unchecked(st, pInWindow, nStartOffset, nEndOffset) ==
    LET i == st.i
        pNext == st.best[((i + 1) - nStartOffset) + 1]
    IN  /\ st.nFollowsLiteral # 0
        /\ st.best[(i - nStartOffset) + 1].length = 0
        /\ (i + 1) < nEndOffset
        /\ pNext.length >= MIN_ENCODED_MATCH_SIZE
        /\ pNext.length < MAX_VARLEN
        /\ pNext.offset # 0
        /\ i >= pNext.offset
        /\ ((i + pNext.length) + 1) <= nEndOffset

\* a literal followed by a match that also matches one byte earlier: the match grows by one
rc_can_grow(st, pInWindow, nStartOffset, nEndOffset) ==
    LET i == st.i
        pNext == st.best[((i + 1) - nStartOffset) + 1]
    IN  /\ st.nFollowsLiteral # 0
        /\ st.best[(i - nStartOffset) + 1].length = 0
        /\ (i + 1) < nEndOffset
        /\ pNext.length >= MIN_ENCODED_MATCH_SIZE
        /\ pNext.length < MAX_VARLEN
        /\ pNext.offset # 0
        /\ i >= pNext.offset
        /\ ((i + pNext.length) + 1) <= nEndOffset
        /\ SameBytes(pInWindow, i - pNext.offset, i, pNext.length + 1)
        /\ IF st.nRepMatchOffset # 0 /\ pNext.offset = st.nRepMatchOffset
           THEN (salvador_get_match_varlen_size_rep((pNext.length + 1) - MIN_ENCODED_MATCH_SIZE)
                 - salvador_get_match_varlen_size_rep(pNext.length - MIN_ENCODED_MATCH_SIZE)) <= 8
           ELSE (salvador_get_match_varlen_size_norep((pNext.length + 1) - MIN_ENCODED_MATCH_SIZE)
                 - salvador_get_match_varlen_size_norep(pNext.length - MIN_ENCODED_MATCH_SIZE)) <= 8

\* variant: the grown match is not reported in nDidReduce
rc_grow_unreported(st, nStartOffset) ==
    LET p == (st.i - nStartOffset) + 1
    IN  [st EXCEPT !.best = [@ EXCEPT ![p] = [length |-> st.best[p + 1].length + 1,
                                              offset |-> st.best[p + 1].offset],
                                      ![p + 1] = [length |-> 0, offset |-> 0]],
                   !.nFollowsLiteral = 0]

rc_grow(st, nStartOffset) ==
    LET p == (st.i - nStartOffset) + 1
    IN  [st EXCEPT !.best = [@ EXCEPT ![p] = [length |-> st.best[p + 1].length + 1,
                                              offset |-> st.best[p + 1].offset],
                                      ![p + 1] = [length |-> 0, offset |-> 0]],
                   !.nDidReduce = 1, !.nFollowsLiteral = 0]

\* the match at i takes the rep offset when the bytes allow it
rc_take_rep_offset(st, pInWindow, nStartOffset, nEndOffset, nNextIndex) ==
    LET i == st.i
        p == (i - nStartOffset) + 1
        pMatch == st.best[p]
        pNext == st.best[(nNextIndex - nStartOffset) + 1]
    IN  IF /\ st.nRepMatchOffset # 0
           /\ pMatch.offset # st.nRepMatchOffset
           /\ \/ pNext.offset # pMatch.offset
              \/ pNext.offset = st.nRepMatchOffset
              \/ OFFSET_COST(pMatch.offset) > OFFSET_COST(pNext.offset)
           /\ i >= st.nRepMatchOffset
           /\ ((i - st.nRepMatchOffset) + pMatch.length) <= nEndOffset
           /\ SameBytes(pInWindow, i - st.nRepMatchOffset, i - pMatch.offset, pMatch.length)
        THEN [st EXCEPT !.best[p].offset = st.nRepMatchOffset, !.nDidReduce = 1]
        ELSE st

\* the number of bytes the sources of the two offsets have in common, up to nMatchLen
RECURSIVE rc_max_len(_, _, _, _, _, _)
rc_max_len(pInWindow, i, nOffsetA, nOffsetB, nMaxLen, nMatchLen) ==
    IF nMaxLen < nMatchLen
       /\ ByteAt(pInWindow, (i - nOffsetA) + nMaxLen) = ByteAt(pInWindow, (i - nOffsetB) + nMaxLen)
    THEN rc_max_len(pInWindow, i, nOffsetA, nOffsetB, nMaxLen + 1, nMatchLen)
    ELSE nMaxLen

\* the match at i takes the offset of the next match, whole or shortened, so that the next
\* match becomes a rep-match
rc_take_next_offset(st, pInWindow, nStartOffset, nEndOffset, nNextIndex, nNextLiterals) ==
    LET i == st.i
        p == (i - nStartOffset) + 1
        pMatch == st.best[p]
        pNext == st.best[(nNextIndex - nStartOffset) + 1]
        nMaxLen == rc_max_len(pInWindow, i, pNext.offset, pMatch.offset, 0, pMatch.length)
    IN  IF /\ pNext.offset # 0
           /\ pMatch.offset # pNext.offset
           /\ st.nRepMatchOffset # pNext.offset
           /\ nNextLiterals # 0
           /\ i >= pNext.offset
           /\ ((i - pNext.offset) + pMatch.length) <= nEndOffset
           /\ pMatch.offset # st.nRepMatchOffset
        THEN IF nMaxLen >= pMatch.length
             THEN [st EXCEPT !.best[p].offset = pNext.offset, !.nDidReduce = 1]
             ELSE IF /\ nMaxLen >= 2
                     /\ (salvador_get_match_varlen_size_rep(nMaxLen - MIN_ENCODED_MATCH_SIZE)
                         + salvador_get_literals_varlen_size(nNextLiterals
                                                             + (pMatch.length - nMaxLen))
                         + ((pMatch.length - nMaxLen) * 8))
                        < (salvador_get_match_varlen_size_norep(pMatch.length
                                                                - MIN_ENCODED_MATCH_SIZE)
                           + OFFSET_COST(pMatch.offset)
                           + salvador_get_literals_varlen_size(nNextLiterals))
             THEN [st EXCEPT !.best = [rc_clear_lengths(st.best, nStartOffset, i, nMaxLen,
                                                        pMatch.length)
                                          EXCEPT ![p] = [length |-> nMaxLen,
                                                         offset |-> pNext.offset]],
                             !.nDidReduce = 1]
             ELSE st
        ELSE st

\* a match shorter than 9 bytes between two commands costs no less than its bytes as literals
rc_literals_win(st, nStartOffset, nNextIndex, nNextLiterals) ==
    LET pMatch == st.best[(st.i - nStartOffset) + 1]
        pNext == st.best[(nNextIndex - nStartOffset) + 1]
    IN  /\ pMatch.length < 9
        /\ ((rc_literals_size(st.nNumLiterals)
             + rc_match_size(st.nRepMatchOffset # 0 /\ pMatch.offset = st.nRepMatchOffset
                                /\ st.nNumLiterals # 0,
                             pMatch.offset, pMatch.length))
            + (rc_literals_size(nNextLiterals)
               + rc_match_size(pMatch.offset # 0 /\ pNext.offset = pMatch.offset
                                  /\ nNextLiterals # 0,
                               pNext.offset, pNext.length)))
           >= ((((pMatch.length * 8)
                 + salvador_get_literals_varlen_size((st.nNumLiterals + pMatch.length)
                                                     + nNextLiterals))
                + ((st.nNumLiterals + nNextLiterals) * 8))
               + rc_match_size(st.nRepMatchOffset # 0 /\ pNext.offset = st.nRepMatchOffset
                                  /\ ((st.nNumLiterals + pMatch.length) + nNextLiterals) # 0,
                               pNext.offset, pNext.length))

\* the match at i and the match that follows it at once can be joined into one long match
rc_can_join(st, pInWindow, nStartOffset, nEndOffset, pJunk) ==
    LET i == st.i
        pMatch == st.best[(i - nStartOffset) + 1]
        pNext == BestEntry(st.best, nStartOffset, i + pMatch.length, pJunk)
        nl == rc_next_literals(st.best, nStartOffset, nEndOffset,
                               (i + pMatch.length) + pNext.length, 0)
        pAfter == st.best[(nl[1] - nStartOffset) + 1]
        bIsRep == st.nRepMatchOffset # 0 /\ pMatch.offset = st.nRepMatchOffset
                  /\ st.nNumLiterals # 0
    IN  /\ (i + pMatch.length) <= nEndOffset
        /\ pMatch.offset > 0
        /\ pMatch.length >= MIN_ENCODED_MATCH_SIZE
        /\ pNext.offset > 0
        /\ pNext.length >= MIN_ENCODED_MATCH_SIZE
        /\ (pMatch.length + pNext.length) >= LEAVE_ALONE_MATCH_SIZE
        /\ (pMatch.length + pNext.length) <= MAX_VARLEN
        /\ (i + pMatch.length) > pMatch.offset
        /\ (i + pMatch.length) > pNext.offset
        /\ ((i + pMatch.length) + pNext.length) <= nEndOffset
        /\ SameBytes(pInWindow, (i - pMatch.offset) + pMatch.length,
                     (i + pMatch.length) - pNext.offset, pNext.length)
        /\ ~(/\ nl[1] < nEndOffset
             /\ ~(pMatch.offset # 0 /\ pAfter.offset = pMatch.offset /\ nl[2] # 0)
             /\ pAfter.length < MIN_ENCODED_MATCH_SIZE)
        /\ ((rc_match_size(bIsRep, pMatch.offset, pMatch.length)
             + rc_match_size(FALSE, pNext.offset, pNext.length))
            + (IF nl[1] < nEndOffset
               THEN rc_match_size(pNext.offset # 0 /\ pAfter.offset = pNext.offset
                                     /\ nl[2] # 0,
                                  pAfter.offset, pAfter.length)
               ELSE 0))
           >= (rc_match_size(bIsRep, pMatch.offset, pMatch.length + pNext.length)
               + (IF nl[1] < nEndOffset
                  THEN rc_match_size(pMatch.offset # 0 /\ pAfter.offset = pMatch.offset
                                        /\ nl[2] # 0,
                                     pAfter.offset, pAfter.length)
                  ELSE 0))

rc_join(st, nStartOffset) ==
    LET p == (st.i - nStartOffset) + 1
        nMatchLen == st.best[p].length
    IN  [st EXCEPT !.best = [@ EXCEPT ![p].length = nMatchLen + st.best[p + nMatchLen].length,
                                      ![p + nMatchLen] = [length |-> -1, offset |-> 0]],
                   !.nDidReduce = 1, !.nFollowsLiteral = 0]

\* variant: a rep-match of one byte between literals is given up whatever it costs
rc_single_loses_always(st, nStartOffset, nEndOffset) ==
    /\ st.nNumLiterals > 0
    /\ rc_next_literals(st.best, nStartOffset, nEndOffset, st.i + 1, 0)[2] > 0

\* a rep-match of one byte between literals costs no less than the byte as a literal
rc_single_loses(st, nStartOffset, nEndOffset) ==
    LET nl == rc_next_literals(st.best, nStartOffset, nEndOffset, st.i + 1, 0)
    IN  /\ st.nNumLiterals > 0
        /\ nl[2] > 0
        /\ ((salvador_get_literals_varlen_size(st.nNumLiterals)
             + (TOKEN_SIZE + salvador_get_match_varlen_size_rep(1 - MIN_ENCODED_MATCH_SIZE)))
            + salvador_get_literals_varlen_size(nl[2]))
           >= (salvador_get_literals_varlen_size((st.nNumLiterals + 1) + nl[2]) + 8)

\* the match branch of the loop, for a match that follows a literal and is followed, after
\* nNextLiterals literals, by another match: the two offset changes, then the replacement by
\* literals; bReduced tells that the loop continues at the same position
rc_between(st, pInWindow, nStartOffset, nEndOffset) ==
    LET len0 == st.best[(st.i - nStartOffset) + 1].length
        nl == rc_next_literals(st.best, nStartOffset, nEndOffset, st.i + len0, 0)
    IN  IF /\ st.nFollowsLiteral # 0
           /\ (st.i + len0) < nEndOffset
           /\ nl[1] < nEndOffset
           /\ st.best[(nl[1] - nStartOffset) + 1].length >= MIN_ENCODED_MATCH_SIZE
        THEN LET st1 == rc_take_rep_offset(st, pInWindow, nStartOffset, nEndOffset, nl[1])
                 st2 == rc_take_next_offset(st1, pInWindow, nStartOffset, nEndOffset, nl[1],
                                            nl[2])
             IN  IF rc_literals_win(st2, nStartOffset, nl[1], nl[2])
                 THEN [st |-> [st2 EXCEPT
                                 !.best = rc_clear_lengths(st2.best, nStartOffset, st2.i, 0,
                                              st2.best[(st2.i - nStartOffset) + 1].length),
                                 !.nDidReduce = 1, !.nFollowsLiteral = 0],
                       bReduced |-> TRUE]
                 ELSE [st |-> st2, bReduced |-> FALSE]
        ELSE [st |-> st, bReduced |-> FALSE]

\* the highest index at which the test for joining the match at st.i with its successor
\* reads pBestMatch: pBestMatch[i + pMatch->length] once the three conditions before it hold
rc_join_read(st, nStartOffset, nEndOffset) ==
    LET pMatch == st.best[(st.i - nStartOffset) + 1]
    IN  IF /\ (st.i + pMatch.length) <= nEndOffset
           /\ pMatch.offset > 0
           /\ pMatch.length >= MIN_ENCODED_MATCH_SIZE
        THEN st.i + pMatch.length
        ELSE st.i

\* one turn of the loop at position st.i; nMaxRead is the highest index of pBestMatch read
\* so far by pMatch and by the test for joining
rc_step(s0, pInWindow, nStartOffset, nEndOffset, pJunk) ==
    LET st == [s0 EXCEPT !.nMaxRead = Max(@, s0.i)]
        p == (st.i - nStartOffset) + 1
    IN  IF rc_can_grow(st, pInWindow, nStartOffset, nEndOffset) THEN rc_grow(st, nStartOffset)
        ELSE IF st.best[p].length >= MIN_ENCODED_MATCH_SIZE
        THEN LET b == rc_between(st, pInWindow, nStartOffset, nEndOffset)
                 c == [b.st EXCEPT !.nMaxRead =
                                      Max(@, rc_join_read(b.st, nStartOffset, nEndOffset))]
             IN  IF b.bReduced THEN b.st
                 ELSE IF rc_can_join(c, pInWindow, nStartOffset, nEndOffset, pJunk)
                 THEN rc_join(c, nStartOffset)
                 ELSE [c EXCEPT !.nRepMatchOffset = c.best[p].offset,
                                !.i = st.i + c.best[p].length,
                                !.nNumLiterals = 0, !.nFollowsLiteral = 0]
        ELSE IF st.best[p].length = 1
        THEN IF rc_single_loses(st, nStartOffset, nEndOffset)
             THEN [st EXCEPT !.best[p] = [length |-> 0, offset |-> 0], !.nDidReduce = 1]
             ELSE [st EXCEPT !.nNumLiterals = 0, !.nFollowsLiteral = 0, !.i = st.i + 1]
        ELSE [st EXCEPT !.nFollowsLiteral = 1, !.nNumLiterals = st.nNumLiterals + 1,
                        !.i = st.i + 1]

RECURSIVE rc_loop(_, _, _, _, _)
rc_loop(st, pInWindow, nStartOffset, nEndOffset, pJunk) ==
    IF st.i < nEndOffset
    THEN rc_loop(rc_step(st, pInWindow, nStartOffset, nEndOffset, pJunk), pInWindow,
                 nStartOffset, nEndOffset, pJunk)
    ELSE st

\* one pass: the parse it leaves and nDidReduce
salvador_reduce_commands(best, pInWindow, nStartOffset, nEndOffset, nCurRepMatchOffset, nBlockFlags, pJunk) ==
    rc_loop([best |-> best,
             i |-> nStartOffset + (IF HasFlag(nBlockFlags, 1) THEN 1 ELSE 0),
             nNumLiterals |-> IF HasFlag(nBlockFlags, 1) THEN 1 ELSE 0,
             nRepMatchOffset |-> nCurRepMatchOffset,
             nFollowsLiteral |-> 0, nDidReduce |-> 0, nMaxRead |-> -1],
            pInWindow, nStartOffset, nEndOffset, pJunk)

(***************************************************************************)
(* salvador_optimize_and_write_block: the two match supplementation passes *)
(***************************************************************************)
\* next_offset_for_pos[nPos - nPreviousBlockSize] after the first loop: the nearest earlier
\* position of the block that holds the same two bytes as nPos, or -1
NextOffsetForPos(pInWindow, nPreviousBlockSize, nPos) ==
    LET S == {q \in nPreviousBlockSize..(nPos - 1) :
                 /\ ByteAt(pInWindow, q) = ByteAt(pInWindow, nPos)
                 /\ ByteAt(pInWindow, q + 1) = ByteAt(pInWindow, nPos + 1)}
    IN  IF S = {} THEN -1 ELSE CHOOSE q \in S : \A r \in S : r <= q

\* the index of the first entry that has nMatchOffset, itself or less its depth, or -1
RECURSIVE ExistingMatchIdx(_, _, _)
ExistingMatchIdx(entries, nMatchOffset, r) ==
    IF r >= Len(entries) THEN -1
    ELSE IF At(entries, r).offset = nMatchOffset
            \/ (At(entries, r).offset - (At(entries, r).depth % 16384)) = nMatchOffset
    THEN r
    ELSE ExistingMatchIdx(entries, nMatchOffset, r + 1)

\* the first length loop of a supplemented match: four bytes at a time
RECURSIVE supp_len4(_, _, _, _, _)
supp_len4(pInWindow, nMatchPos, nPosition, nEndOffset, nMatchLen) ==
    IF /\ nMatchLen < 128
       /\ ((nPosition + nMatchLen) + 4) < nEndOffset
       /\ SameBytes(pInWindow, nMatchPos + nMatchLen, nPosition + nMatchLen, 4)
    THEN supp_len4(pInWindow, nMatchPos, nPosition, nEndOffset, nMatchLen + 4)
    ELSE nMatchLen

\* both length loops
supp_len(pInWindow, nMatchPos, nPosition, nEndOffset) ==
    ExtendMatch(pInWindow, nPosition, nPosition - nMatchPos,
                supp_len4(pInWindow, nMatchPos, nPosition, nEndOffset, 2),
                Min(128, nEndOffset - nPosition))

\* first pass, the chain of position nPosition from nMatchPos on
RECURSIVE supp_chain(_, _, _, _, _, _, _, _)
supp_chain(entries, pInWindow, nPreviousBlockSize, nEndOffset, nPosition, nMatchPos, nInserted, nMaxOffset) ==
    IF ~(Len(entries) < 15 /\ nMatchPos >= 0) THEN entries
    ELSE IF (nPosition - nMatchPos) > nMaxOffset THEN entries
    ELSE IF ExistingMatchIdx(entries, nPosition - nMatchPos, 0) >= 0
    THEN supp_chain(entries, pInWindow, nPreviousBlockSize, nEndOffset, nPosition,
                    NextOffsetForPos(pInWindow, nPreviousBlockSize, nMatchPos), nInserted,
                    nMaxOffset)
    ELSE IF (nInserted + 1) >= 15
    THEN Append(entries, [length |-> supp_len(pInWindow, nMatchPos, nPosition, nEndOffset),
                          offset |-> nPosition - nMatchPos, depth |-> 16384])
    ELSE supp_chain(Append(entries,
                           [length |-> supp_len(pInWindow, nMatchPos, nPosition, nEndOffset),
                            offset |-> nPosition - nMatchPos, depth |-> 16384]),
                    pInWindow, nPreviousBlockSize, nEndOffset, nPosition,
                    NextOffsetForPos(pInWindow, nPreviousBlockSize, nMatchPos), nInserted + 1,
                    nMaxOffset)

\* first pass: "Supplement small matches"
supplement_small_matches(match, pInWindow, nPreviousBlockSize, nEndOffset, nMaxOffset) ==
    [p \in 1..Len(match) |->
        IF p - 1 >= 1 /\ (nPreviousBlockSize + p) - 1 < nEndOffset - 1
        THEN supp_chain(match[p], pInWindow, nPreviousBlockSize, nEndOffset,
                        (nPreviousBlockSize + p) - 1,
                        NextOffsetForPos(pInWindow, nPreviousBlockSize,
                                         (nPreviousBlockSize + p) - 1),
                        0, nMaxOffset)
        ELSE match[p]]

\* second pass, an offset the position already has: an entry of the first pass is lengthened
supp_lengthen(entries, r, pInWindow, nPosition, nMatchOffset, nEndOffset) ==
    IF At(entries, r).depth = 16384
       /\ ExtendMatch(pInWindow, nPosition, nMatchOffset, 2, Min(128, nEndOffset - nPosition))
          > At(entries, r).length
    THEN [entries EXCEPT ![r + 1].length =
             ExtendMatch(pInWindow, nPosition, nMatchOffset, 2, Min(128, nEndOffset - nPosition))]
    ELSE entries

\* second pass, nGotMatch: a byte of nPosition + 3 .. nMaxForwardPos - 1 matches at the offset
supp_got_match(pInWindow, nPosition, nMatchOffset, nMaxForwardPos) ==
    /\ (nPosition + 3) >= nMatchOffset
    /\ \E nForwardPos \in (nPosition + 3)..(nMaxForwardPos - 1) :
          ByteAt(pInWindow, nForwardPos) = ByteAt(pInWindow, nForwardPos - nMatchOffset)

\* second pass, the chain of position nPosition from nMatchPos on; st holds the match
\* table and the visited table
RECURSIVE supp_chain_further(_, _, _, _, _, _, _, _, _)
supp_chain_further(st, arrival, pInWindow, nPreviousBlockSize, nEndOffset, nPosition, nMatchPos, nInserted, nMaxOffset) ==
    LET p == (nPosition - nPreviousBlockSize) + 1
        nMatchOffset == nPosition - nMatchPos
        r == ExistingMatchIdx(st.match[p], nMatchOffset, 0)
        nNext == NextOffsetForPos(pInWindow, nPreviousBlockSize, nMatchPos)
    IN  IF ~(Len(st.match[p]) < NMATCHES_PER_INDEX /\ nMatchPos >= 0) THEN st
        ELSE IF nMatchOffset > nMaxOffset THEN st
        ELSE IF r >= 0
        THEN supp_chain_further(
                 [st EXCEPT !.match[p] = supp_lengthen(@, r, pInWindow, nPosition, nMatchOffset,
                                                       nEndOffset)],
                 arrival, pInWindow, nPreviousBlockSize, nEndOffset, nPosition, nNext,
                 nInserted, nMaxOffset)
        ELSE IF supp_got_match(pInWindow, nPosition, nMatchOffset,
                               Min(nPosition + 6, nEndOffset - 2))
        THEN LET st1 == salvador_insert_forward_match(
                            [st EXCEPT !.match[p] =
                                Append(@, [length |-> supp_len(pInWindow, nMatchPos, nPosition,
                                                               nEndOffset),
                                           offset |-> nMatchOffset, depth |-> 0])],
                            arrival, pInWindow, nPosition, nMatchOffset, nPreviousBlockSize,
                            nEndOffset, 8)
             IN  IF (nInserted + 1) >= 9 \/ Len(st1.match[p]) >= NMATCHES_PER_INDEX THEN st1
                 ELSE supp_chain_further(st1, arrival, pInWindow, nPreviousBlockSize, nEndOffset,
                                         nPosition, nNext, nInserted + 1, nMaxOffset)
        ELSE supp_chain_further(st, arrival, pInWindow, nPreviousBlockSize, nEndOffset,
                                nPosition, nNext, nInserted, nMaxOffset)

\* second pass: "Supplement matches further", from position nPosition on
RECURSIVE supplement_matches_further(_, _, _, _, _, _, _)
supplement_matches_further(st, arrival, pInWindow, nPreviousBlockSize, nEndOffset, nPosition, nMaxOffset) ==
    IF ~(nPosition < nEndOffset - 1) THEN st
    ELSE supplement_matches_further(
             IF MatchEntry(st.match, nPreviousBlockSize, nPosition, 0).length < 8
             THEN supp_chain_further(st, arrival, pInWindow, nPreviousBlockSize, nEndOffset,
                                     nPosition,
                                     NextOffsetForPos(pInWindow, nPreviousBlockSize, nPosition),
                                     0, nMaxOffset)
             ELSE st,
             arrival, pInWindow, nPreviousBlockSize, nEndOffset, nPosition + 1, nMaxOffset)

(***************************************************************************)
(* Initial values                                                          *)
(***************************************************************************)
\* a writer at the start of an output buffer of nMaxOutDataSize bytes
NewWriter(nMaxOutDataSize) ==
    [pOutData |-> <<>>, base |-> 0, nOutOffset |-> 0, nMaxOutDataSize |-> nMaxOutDataSize,
     nCurBitsOffset |-> INT_MIN, nCurBitShift |-> 0, trace |-> <<>>]

\* memset(&stats, 0, ...) and the four minima set to -1 (salvador_compressor_init)
InitStats ==
    [min_literals |-> 0, max_literals |-> 0, total_literals |-> 0,
     min_offset |-> -1, max_offset |-> 0, total_offsets |-> 0,
     min_match_len |-> -1, max_match_len |-> 0, total_match_lens |-> 0,
     min_rle1_len |-> -1, max_rle1_len |-> 0, total_rle1_lens |-> 0,
     min_rle2_len |-> -1, max_rle2_len |-> 0, total_rle2_lens |-> 0,
     literals_divisor |-> 0, match_divisor |-> 0, rle1_divisor |-> 0, rle2_divisor |-> 0,
     commands_divisor |-> 0, num_rep_matches |-> 0, safe_dist |-> 0]

CallNone == [op |-> "none", nValue |-> 0, nArg |-> 0, nFirstBit |-> NULL, pre |-> NewWriter(0)]

CmpIdle ==
    [flags |-> 0, max_offset |-> MAX_OFFSET, block_size |-> 0, best_match |-> <<>>,
     match |-> <<>>, visited |-> <<>>, arrival |-> <<>>, stats |-> InitStats]

\* the last command written by salvador_write_block: what it was, where its events start
\* in the trace (t0) and the writer just before its match token or end marker (pre)
LastNone == [kind |-> "none", nMatchOffset |-> 0, nMatchLen |-> 0, nNumLiterals |-> 0,
             nInFirstLiteralOffset |-> 0, t0 |-> 0, pre |-> NewWriter(0)]

\* matches is the history of the offsets of the matches the call has emitted, spans that of
\* the window positions its emitted commands cover: the first position and the number of
\* bytes of each literal run and each match written
BlkIdle ==
    [pc |-> "idle", pInWindow |-> <<>>, nStartOffset |-> 0, nEndOffset |-> 0, nBlockFlags |-> 0,
     i |-> 0, nNumLiterals |-> 0, nInFirstLiteralOffset |-> 0, nIsFirstCommand |-> 0,
     nRepMatchOffset |-> 0, ret |-> 0, cost |-> 0, bits0 |-> 0, tr0 |-> 0, last |-> LastNone,
     matches |-> <<>>, spans |-> <<>>]

\* blocks is the history of the calls of salvador_compressor_shrink_block: the flags of each
\* block, what it wrote last, what it returned, and where in the trace its last token begins
\* (t0) and its output ends (t1), and the offsets of the matches it emitted; stats0 is the statistics of the compressor when the
\* current block began; pStats is what the call stored through pStats (<<>> when nothing);
\* nMaxRead is the highest index of pBestMatch the last reduction pass read, -1 before it
DrvIdle ==
    [pc |-> "idle", nCurFinalLiterals |-> 0, nCurRepMatchOffset |-> 1,
     pInputData |-> <<>>, nInputSize |-> 0, nMaxOutBufferSize |-> 0, nDictionarySize |-> 0,
     finder |-> "none", nBlockSize |-> 0, nMaxOutBlockSize |-> 0, nOriginalSize |-> 0,
     nCompressedSize |-> 0, nError |-> 0, nPreviousBlockSize |-> 0, nNumBlocks |-> 0,
     nBlockFlags |-> 0, nInDataSize |-> 0, pInWindow |-> <<>>, nPasses |-> 0, nDidReduce |-> 0,
     blocks |-> <<>>, pStats |-> <<>>, ret |-> 0, stats0 |-> InitStats,
     nMaxWindowSize |-> 0, nMaxRead |-> -1]

FwdIdle ==
    [pc |-> "idle", pInWindow |-> <<>>, nStartOffset |-> 0, nEndOffset |-> 0,
     nInsertForwardReps |-> 0, nCurRepMatchOffset |-> 0, nArrivalsPerPosition |-> 0,
     nBlockFlags |-> 0, i |-> 0, m |-> 0, nOverallMinRepLen |-> 0, nOverallMaxRepLen |-> 0]

\* salvador_write_block starting from the initial rep-offset instead of the carried one
EnterWriteBlock_rep_reset(pInWindow, nStartOffset, nEndOffset, nBlockFlags, nCurRepMatchOffset, w) ==
    [BlkIdle EXCEPT !.pc = "loop", !.pInWindow = pInWindow, !.nStartOffset = nStartOffset,
                    !.nEndOffset = nEndOffset, !.nBlockFlags = nBlockFlags,
                    !.i = nStartOffset,
                    !.nIsFirstCommand = IF HasFlag(nBlockFlags, 1) THEN 1 ELSE 0,
                    !.nRepMatchOffset = 1,
                    !.bits0 = BitsWritten(w),
                    !.tr0 = Len(w.trace)]

\* entry of salvador_write_block
EnterWriteBlock(pInWindow, nStartOffset, nEndOffset, nBlockFlags, nCurRepMatchOffset, w) ==
    [BlkIdle EXCEPT !.pc = "loop", !.pInWindow = pInWindow, !.nStartOffset = nStartOffset,
                    !.nEndOffset = nEndOffset, !.nBlockFlags = nBlockFlags,
                    !.i = nStartOffset,
                    !.nIsFirstCommand = IF HasFlag(nBlockFlags, 1) THEN 1 ELSE 0,
                    !.nRepMatchOffset = nCurRepMatchOffset,
                    !.bits0 = BitsWritten(w),
                    !.tr0 = Len(w.trace)]

(***************************************************************************)
(* SpecElias: one call of salvador_write_elias_value on a writer that has  *)
(* 0..7 bits pending, with or without a reserved first-bit slot            *)
(***************************************************************************)
\* the writer after nPre bits of a byte and, if reserve, one byte holding the first-bit slot
EliasStartWriter(cap, nPre, reserve) ==
    LET a == IF nPre > 0 THEN salvador_write_bits(NewWriter(cap), 0, nPre) ELSE NewWriter(cap)
    IN  IF reserve
        THEN [StoreByte(a, a.nOutOffset, 254) EXCEPT !.nOutOffset = @ + 1,
                                                      !.trace = Append(@, <<"byte", 254>>)]
        ELSE a

InitElias ==
    /\ \E cap \in {2, 4}, nPre \in 0..7, reserve \in BOOLEAN :
          /\ wr = EliasStartWriter(cap, nPre, reserve)
          /\ call = [CallNone EXCEPT !.nFirstBit = IF reserve THEN wr.nOutOffset - 1 ELSE NULL]
    /\ nOps = 0
    /\ cmp = CmpIdle
    /\ blk = BlkIdle
    /\ drv = DrvIdle
    /\ fwd = FwdIdle

EliasCall ==
    /\ call.op = "none"
    /\ \E nValue \in 1..MaxEliasValue, nIsInverted \in {0, 1} :
          /\ wr' = salvador_write_elias_value(wr, nValue, nIsInverted, call.nFirstBit)
          /\ call' = [op |-> "elias", nValue |-> nValue, nArg |-> nIsInverted,
                      nFirstBit |-> call.nFirstBit, pre |-> wr]
    /\ nOps' = nOps + 1
    /\ UNCHANGED <<cmp, blk, drv, fwd>>

NextElias == EliasCall

SpecElias == InitElias /\ [][NextElias]_vars

(***************************************************************************)
(* SpecBlock: salvador_write_block on an arbitrary parse of up to MaxCmds  *)
(* commands, first or later block, last or not                             *)
(***************************************************************************)
Literal == [length |-> 0, offset |-> 0]

BlockCmdSet ==
    {Literal} \cup
    {[length |-> c[1], offset |-> c[2]] :
        c \in {<<2, 1>>, <<2, 2>>, <<1, 2>>, <<5, 700>>, <<2, 0>>, <<2, 32641>>}}

\* best-match entries of a command list: a match of n bytes is followed by n - 1 unused entries
RECURSIVE CmdsToBestMatch(_)
CmdsToBestMatch(cmds) ==
    IF Len(cmds) = 0 THEN <<>>
    ELSE <<cmds[1]>> \o [k \in 1..(cmds[1].length - 1) |-> Literal] \o CmdsToBestMatch(Tail(cmds))

\* the arguments the driver gives the next block: pOutBuffer + nCompressedSize and
\* nCurBitsOffset -= nOutDataSize (salvador_compress)
NextBlockWriter(w, nOutDataSize, nOutDataEnd) ==
    [w EXCEPT !.base = @ + nOutDataSize,
              !.nOutOffset = 0,
              !.nMaxOutDataSize = nOutDataEnd,
              !.nCurBitsOffset = IF @ # INT_MIN THEN @ - nOutDataSize ELSE @]

\* output left by earlier blocks: one byte with three bits used
EarlierOutput == salvador_write_bits(NewWriter(1), 5, 3)

\* flags, max_offset and output room of a block
BlockConfigSet ==
    {<<0, 40000, 40>>, <<FLG_IS_INVERTED, 40000, 40>>, <<0, 2, 40>>, <<FLG_IS_INVERTED, 40000, 2>>}

InitBlock ==
    /\ \E n \in 1..MaxCmds, nBlockFlags \in 0..3, cfg \in BlockConfigSet :
       \E cmds \in [1..n -> BlockCmdSet], nStartOffset \in {0, 1}, nRep \in {1, 2} :
          LET best == CmdsToBestMatch(cmds)
              win == [k \in 1..(nStartOffset + Len(best)) |-> 64 + k]
              w == IF HasFlag(nBlockFlags, 1) THEN NewWriter(cfg[3])
                   ELSE NextBlockWriter(EarlierOutput, 1, cfg[3])
          IN  /\ HasFlag(nBlockFlags, 1) => nRep = 1
              /\ ~HasFlag(nBlockFlags, 1) => nStartOffset = 1
              /\ wr = w
              /\ cmp = [CmpIdle EXCEPT !.flags = cfg[1], !.max_offset = cfg[2],
                                       !.best_match = best]
              /\ blk = EnterWriteBlock(win, nStartOffset, nStartOffset + Len(best),
                                       nBlockFlags, nRep, w)
              /\ drv = [DrvIdle EXCEPT !.nCurRepMatchOffset = nRep]
    /\ call = CallNone
    /\ nOps = 0
    /\ fwd = FwdIdle

NextBlock == WB_Literal \/ WB_Match \/ WB_End

SpecBlock == InitBlock /\ [][NextBlock]_vars

(***************************************************************************)
(* C4                                                                      *)
(***************************************************************************)
FloorLog2(v) == CHOOSE b \in 0..30 : Pow2(b) <= v /\ v < Pow2(b + 1)

\* b pairs (0, data bit, high to low, below the leading 1), then a terminating 1
GammaCode(v, inverted) ==
    LET b == FloorLog2(v)
    IN  [k \in 1..(2 * b + 1) |->
            IF k = 2 * b + 1 THEN 1
            ELSE IF k % 2 = 1 THEN 0
            ELSE IF inverted # 0 THEN 1 - BitOf(v, b - (k \div 2))
            ELSE BitOf(v, b - (k \div 2))]

\* the events a call appended to the trace
EventsSince(w, n) == SubSeq(w.trace, n + 1, Len(w.trace))

BitValues(events) == [k \in 1..Len(events) |-> events[k][2]]

\* C4: a successful call of salvador_write_elias_value for v >= 1 emits exactly
\* floor(log2 v) pairs (0, data bit of v from high to low, inverted when
\* nIsInverted is set) and then a 1; only the first of these bits goes to the
\* reserved first-bit slot when there is one; and the number of bits is
\* 2 * floor(log2 v) + 1 = salvador_get_elias_size(v).
C4_EliasWriter ==
    (call.op = "elias" /\ wr.nOutOffset >= 0) =>
        LET ev == EventsSince(wr, Len(call.pre.trace))
        IN  /\ BitValues(ev) = GammaCode(call.nValue, call.nArg)
            /\ Len(ev) = 2 * FloorLog2(call.nValue) + 1
            /\ Len(ev) = salvador_get_elias_size(call.nValue)
            /\ \A k \in 1..Len(ev) :
                  ev[k][1] = IF k = 1 /\ call.nFirstBit # NULL THEN "first" ELSE "bit"

C4_Witness ==
    /\ call.op = "elias" /\ wr.nOutOffset >= 0
    /\ call.nValue = EOD_VALUE /\ call.nArg = 1 /\ call.nFirstBit # NULL
    /\ Len(wr.trace) = Len(call.pre.trace) + 17

(***************************************************************************)
(* SpecWriter: arbitrary sequences of the writes salvador_write_block      *)
(* makes, on an output buffer of 0..MaxOutCap bytes                        *)
(***************************************************************************)
WriterWindow == <<65, 66>>

InitWriter ==
    /\ \E cap \in 0..MaxOutCap : wr = NewWriter(cap)
    /\ call = CallNone
    /\ nOps = 0
    /\ cmp = CmpIdle
    /\ blk = BlkIdle
    /\ drv = DrvIdle
    /\ fwd = FwdIdle

\* salvador_write_bits(pOutData, nOutOffset, nMaxOutDataSize, nValue, nBits, ...)
W_Bits ==
    /\ nOps < MaxWriterOps
    /\ \E nBits \in {1, 2, 9}, nValue \in {0, 1, 2, 341} :
          /\ nValue < Pow2(nBits)
          /\ wr' = salvador_write_bits(wr, nValue, nBits)
          /\ call' = [op |-> "bits", nValue |-> nValue, nArg |-> nBits,
                      nFirstBit |-> NULL, pre |-> wr]
    /\ nOps' = nOps + 1
    /\ UNCHANGED <<cmp, blk, drv, fwd>>

\* salvador_write_elias_value(..., nValue, nIsInverted, ..., NULL)
W_Elias ==
    /\ nOps < MaxWriterOps
    /\ \E nValue \in {1, 2, 5, 256}, nIsInverted \in {0, 1} :
          /\ wr' = salvador_write_elias_value(wr, nValue, nIsInverted, NULL)
          /\ call' = [op |-> "elias", nValue |-> nValue, nArg |-> nIsInverted,
                      nFirstBit |-> NULL, pre |-> wr]
    /\ nOps' = nOps + 1
    /\ UNCHANGED <<cmp, blk, drv, fwd>>

\* a match with offset, as salvador_write_block writes it
W_OffsetMatch ==
    /\ nOps < MaxWriterOps
    /\ wr.nOutOffset >= 0
    /\ \E nMatchOffset \in {1, 130}, nMatchLen \in {2, 3} :
          /\ wr' = wb_write_offset_match(wr, nMatchOffset, nMatchLen - 2, 0)
          /\ call' = [op |-> "match", nValue |-> nMatchOffset, nArg |-> nMatchLen,
                      nFirstBit |-> NULL, pre |-> wr]
    /\ nOps' = nOps + 1
    /\ UNCHANGED <<cmp, blk, drv, fwd>>

\* a literals command, as salvador_write_block writes it
W_Literals ==
    /\ nOps < MaxWriterOps
    /\ wr.nOutOffset >= 0
    /\ \E nNumLiterals \in {1, 2}, nIsFirstCommand \in {0, 1} :
          /\ wr' = wb_write_literals(wr, WriterWindow, 0, nNumLiterals, nIsFirstCommand)
          /\ call' = [op |-> "literals", nValue |-> nNumLiterals, nArg |-> nIsFirstCommand,
                      nFirstBit |-> NULL, pre |-> wr]
    /\ nOps' = nOps + 1
    /\ UNCHANGED <<cmp, blk, drv, fwd>>

NextWriter == W_Bits \/ W_Elias \/ W_OffsetMatch \/ W_Literals

SpecWriter == InitWriter /\ [][NextWriter]_vars

(***************************************************************************)
(* C5                                                                      *)
(***************************************************************************)
IsBitEvent(e) == e[1] = "bit"

IsByteEvent(e) == e[1] = "byte"

\* value of a sequence of bits, most significant first
RECURSIVE BitsValue(_)
BitsValue(bits) ==
    IF Len(bits) = 0 THEN 0
    ELSE 2 * BitsValue(SubSeq(bits, 1, Len(bits) - 1)) + bits[Len(bits)]

\* bits of the byte under the cursor that are still free
OpenBits(w) == IF w.nCurBitsOffset # INT_MIN THEN w.nCurBitShift + 1 ELSE 0

GammaSize(v) == 2 * FloorLog2(v) + 1

CeilDiv8(n) == (n + 7) \div 8

\* stream bits and raw bytes the last call has to write
CallBits ==
    CASE call.op = "bits" -> call.nArg
      [] call.op = "elias" -> GammaSize(call.nValue)
      [] call.op = "literals" -> (1 - call.nArg) + GammaSize(call.nValue)
      [] call.op = "match" -> 1 + GammaSize(Shr7(call.nValue - 1) + 1) + GammaSize(call.nArg - 1) - 1
      [] OTHER -> 0

CallBytes ==
    CASE call.op = "literals" -> call.nValue
      [] call.op = "match" -> 1
      [] OTHER -> 0

\* output bytes the last call needs beyond those already allocated
CallNeedsBytes ==
    CeilDiv8(Max(0, CallBits - OpenBits(call.pre))) + CallBytes

\* C5: bits fill the current byte from bit 7 down to bit 0; a new (zero) byte
\* is taken at nOutOffset only when no byte is open, so every bit written
\* uses exactly one bit position and every raw byte eight; when the cursor is
\* present the shift is in 0..7; nothing is stored at an index >=
\* nMaxOutDataSize; a call returns -1 exactly when it needs such an index;
\* and once a write has returned -1 every further write returns -1.
C5_BitWriter ==
    LET pre == call.pre
        ev == EventsSince(wr, Len(pre.trace))
        bits == BitValues(SelectSeq(wr.trace, IsBitEvent))
        n == 7 - wr.nCurBitShift
    IN  /\ wr.nCurBitsOffset # INT_MIN =>
              /\ wr.nCurBitShift \in 0..7
              /\ wr.base + wr.nCurBitsOffset < Len(wr.pOutData)
              /\ Len(bits) >= n
              /\ At(wr.pOutData, wr.base + wr.nCurBitsOffset) =
                     BitsValue(SubSeq(bits, Len(bits) - n + 1, Len(bits))) * Pow2(8 - n)
        /\ Len(wr.pOutData) <= wr.base + wr.nMaxOutDataSize
        /\ wr.nOutOffset >= 0 => wr.base + wr.nOutOffset = Len(wr.pOutData)
        /\ call.op # "none" =>
              /\ BitsWritten(wr) - BitsWritten(pre) =
                     Len(SelectSeq(ev, IsBitEvent)) + 8 * Len(SelectSeq(ev, IsByteEvent))
              /\ pre.nOutOffset < 0 => wr.nOutOffset = -1
              /\ pre.nOutOffset >= 0 =>
                     ((wr.nOutOffset = -1) <=>
                         (CallNeedsBytes > pre.nMaxOutDataSize - pre.nOutOffset))
              /\ wr.nOutOffset >= 0 =>
                     wr.nOutOffset = pre.nOutOffset + CallNeedsBytes

\* a write failed for lack of room and a later write of the chain was attempted
C5_Witness ==
    /\ call.op = "bits" /\ call.pre.nOutOffset = -1 /\ wr.nOutOffset = -1
    /\ Len(wr.pOutData) = wr.nMaxOutDataSize /\ wr.nMaxOutDataSize > 0

(***************************************************************************)
(* Claims about salvador_write_block (SpecBlock)                           *)
(***************************************************************************)
BitEvents(bits) == [k \in 1..Len(bits) |-> <<"bit", bits[k]>>]

ByteEvents(pInWindow, nFrom, n) == [k \in 1..n |-> <<"byte", At(pInWindow, nFrom + k - 1)>>]

IsInverted == IF HasFlag(cmp.flags, FLG_IS_INVERTED) THEN 1 ELSE 0

\* the events of the last command, from its match token or end marker on
LastEvents == EventsSince(wr, Len(blk.last.pre.trace))

\* the events of the literal run of the last command
LastLiteralEvents == SubSeq(wr.trace, blk.last.t0 + 1, Len(blk.last.pre.trace))

\* the literal run of the last command is the first thing of a first block
LastRunIsFirst == HasFlag(blk.nBlockFlags, 1) /\ blk.last.t0 = blk.tr0

BlockOk == blk.pc \in {"loop", "done"} /\ blk.ret # -1

\* bits of the literals seen but not yet written
PendingLiteralBits ==
    IF blk.nNumLiterals > 0 THEN 1 + GammaSize(blk.nNumLiterals) + 8 * blk.nNumLiterals ELSE 0

\* 1 once the first literal run of a first block has been written
ElidedTokenBits ==
    IF HasFlag(blk.nBlockFlags, 1) /\ Len(wr.trace) > blk.tr0 THEN 1 ELSE 0

EodBits == IF blk.last.kind = "eod" THEN 1 + GammaSize(EOD_VALUE) ELSE 0

\* C3: at every point of a block that has not failed, the cost the parser
\* charges for the commands walked so far (literals one at a time, matches
\* with offset, rep-matches) equals the number of bits written for them plus
\* the bits of the literals still pending, apart from the one token bit that
\* the first literal run of a first block does not write and the bits of
\* the end-of-data marker; and the offset cost of a match with offset o is
\* 7 + gamma_size(((o-1)>>7)+1), which is 8 for o <= 128, and is the number
\* of bits of the high offset gamma plus the seven offset bits of the low byte.
C3_CostExact ==
    BlockOk =>
        /\ blk.cost = (BitsWritten(wr) - blk.bits0) + PendingLiteralBits
                       + ElidedTokenBits - EodBits
        /\ blk.last.kind = "match" =>
               LET o == blk.last.nMatchOffset
               IN  /\ OFFSET_COST(o) = 7 + GammaSize(((o - 1) \div 128) + 1)
                   /\ o <= 128 => OFFSET_COST(o) = 8
                   /\ BitsWritten(wr) - BitsWritten(blk.last.pre) =
                          TOKEN_SIZE + OFFSET_COST(o) + GammaSize(blk.last.nMatchLen - 1)

\* a first block ended with literals, a far match, a rep-match and the end marker written
C3_Witness ==
    /\ blk.pc = "done" /\ blk.ret > 0 /\ blk.last.kind = "eod"
    /\ HasFlag(blk.nBlockFlags, 1)
    /\ cmp.stats.num_rep_matches > 0
    /\ cmp.stats.max_offset > 128
    /\ blk.cost > 0

\* index in pOutData of the low offset byte of the last match with offset
LowByteIndex ==
    LET pre == blk.last.pre
        high == ((blk.last.nMatchOffset - 1) \div 128) + 1
    IN  Len(pre.pOutData) + CeilDiv8(Max(0, (1 + GammaSize(high)) - OpenBits(pre)))

\* C6: a match with offset o and length L that is not a rep-match is written
\* as a 1 token bit, the gamma code of ((o-1)>>7)+1 (inverted iff
\* FLG_IS_INVERTED), one byte whose upper seven bits are those of
\* (255 - ((o-1) & 0x7f)) << 1, and the gamma code of L-1, whose first bit is
\* stored in the least significant bit of that byte and changes nothing
\* else of it; storing it takes no position of the bit stream and no output
\* byte, and the other bits of the length go to the bit stream.
C6_OffsetMatch ==
    (BlockOk /\ blk.last.kind = "match") =>
        LET o == blk.last.nMatchOffset
            L == blk.last.nMatchLen
            pre == blk.last.pre
            high == ((o - 1) \div 128) + 1
            len == GammaCode(L - 1, 0)
            upper == (255 - ((o - 1) % 128)) % 128
        IN  /\ LastEvents = <<(<<"bit", 1>>)>> \o BitEvents(GammaCode(high, IsInverted))
                                \o <<(<<"byte", 2 * upper>>), (<<"first", len[1]>>)>>
                                \o BitEvents(Tail(len))
            /\ At(wr.pOutData, LowByteIndex) = 2 * upper + len[1]
            /\ BitsWritten(wr) - BitsWritten(pre) = 1 + GammaSize(high) + 8 + (Len(len) - 1)
            /\ wr.nOutOffset - pre.nOutOffset =
                   1 + CeilDiv8(Max(0, (1 + GammaSize(high) + Len(len) - 1) - OpenBits(pre)))

\* a match whose high offset part and length both take five bits, the offset inverted
C6_Witness ==
    /\ BlockOk /\ blk.last.kind = "match"
    /\ blk.last.nMatchOffset = 700 /\ blk.last.nMatchLen = 5
    /\ HasFlag(cmp.flags, FLG_IS_INVERTED)

\* C7 as the specification states it: a rep-match of length L is written as
\* a 0 bit and then the gamma code of L - 1 (a gamma code exists for values
\* from 1 on).
C7_RepMatchLengthMinusOne ==
    (BlockOk /\ blk.last.kind = "rep") =>
        /\ blk.last.nMatchLen - 1 >= 1
        /\ LastEvents = <<(<<"bit", 0>>)>> \o BitEvents(GammaCode(blk.last.nMatchLen - 1, 0))

\* C7: a rep-match of length L is written as a 0 bit and then the gamma
\* code of L, never inverted, all of it in the bit stream.
C7_RepMatch ==
    (BlockOk /\ blk.last.kind = "rep") =>
        /\ blk.last.nMatchLen >= 1
        /\ blk.last.nNumLiterals > 0
        /\ LastEvents = <<(<<"bit", 0>>)>> \o BitEvents(GammaCode(blk.last.nMatchLen, 0))

C7_Witness ==
    /\ BlockOk /\ blk.last.kind = "rep"
    /\ blk.last.nMatchLen = 2 /\ blk.last.nMatchOffset = 2
    /\ HasFlag(cmp.flags, FLG_IS_INVERTED)

\* entries of the parse that salvador_write_block visits: a match of n >= 2 bytes
\* skips n entries, anything else one
RECURSIVE VisitedFrom(_)
VisitedFrom(k) ==
    IF k > Len(cmp.best_match) THEN {}
    ELSE {k} \cup VisitedFrom(k + Max(1, cmp.best_match[k].length))

OffsetInRange(o) == o >= MIN_OFFSET /\ o <= Min(cmp.max_offset, MAX_OFFSET)

\* the whole block is literals
AllLiterals == \A k \in 1..Len(cmp.best_match) : cmp.best_match[k].length = 0

\* C9: the literal run written first in a first block has no token bit: it
\* is the gamma code of its length and then its bytes; every other literal
\* run, in a first block or a later one, is a 0 bit, the gamma code of its
\* length and its bytes.  A first and last block of n >= 1 bytes that is all
\* literals is written as gamma(n), the n bytes and the end-of-data marker;
\* for n = 1 the first bit of the output is 1 and the second output byte is
\* the literal.
C9_FirstCommandElision ==
    /\ (BlockOk /\ blk.last.kind \in {"match", "rep", "eod"} /\ blk.last.nNumLiterals > 0) =>
           LET n == blk.last.nNumLiterals
               run == BitEvents(GammaCode(n, 0))
                         \o ByteEvents(blk.pInWindow, blk.last.nInFirstLiteralOffset, n)
           IN  LastLiteralEvents = IF LastRunIsFirst THEN run ELSE <<(<<"bit", 0>>)>> \o run
    /\ (BlockOk /\ blk.pc = "done" /\ blk.nBlockFlags = 3 /\ AllLiterals) =>
           LET n == blk.nEndOffset - blk.nStartOffset
           IN  /\ wr.trace = BitEvents(GammaCode(n, 0))
                                 \o ByteEvents(blk.pInWindow, blk.nStartOffset, n)
                                 \o <<(<<"bit", 1>>)>>
                                 \o BitEvents(GammaCode(EOD_VALUE, IsInverted))
               /\ n = 1 => /\ At(wr.pOutData, 0) \div 128 = 1
                           /\ At(wr.pOutData, 1) = At(blk.pInWindow, blk.nStartOffset)

\* a later literal run in a first block, after the first run and a match
C9_Witness ==
    /\ BlockOk /\ HasFlag(blk.nBlockFlags, 1)
    /\ blk.last.kind \in {"match", "rep", "eod"}
    /\ blk.last.nNumLiterals > 0 /\ ~LastRunIsFirst

\* C10: a block whose parse has a match with an offset below MIN_OFFSET or
\* above min(max_offset, MAX_OFFSET), or a first block whose parse starts
\* with a match, returns -1; and every match written has its offset in
\* [MIN_OFFSET, min(max_offset, MAX_OFFSET)].
C10_FormatViolation ==
    /\ blk.pc = "done" =>
           /\ (\E k \in VisitedFrom(1) :
                    /\ cmp.best_match[k].length >= 2
                    /\ ~OffsetInRange(cmp.best_match[k].offset)) => blk.ret = -1
           /\ (HasFlag(blk.nBlockFlags, 1) /\ cmp.best_match[1].length >= 2) => blk.ret = -1
    /\ (blk.pc \in {"loop", "done"} /\ blk.last.kind \in {"match", "rep"}) =>
           OffsetInRange(blk.last.nMatchOffset)

\* a block stopped at a match beyond max_offset after writing a match in range
C10_Witness ==
    /\ blk.pc = "done" /\ blk.ret = -1 /\ blk.last.kind = "fail"
    /\ blk.last.nMatchOffset = 700 /\ cmp.max_offset = 2
    /\ cmp.stats.match_divisor > 0
    /\ wr.nOutOffset >= 0

(***************************************************************************)
(* SpecParse: the final pass of salvador_optimize_forward over a block of  *)
(* up to MaxParseLen bytes and a table of true matches                     *)
(***************************************************************************)
\* the number of bytes the window has in common at nPos and nPos - nOffset, up to the block end
CommonLen(pInWindow, nPos, nOffset, nEndOffset) ==
    ExtendMatch(pInWindow, nPos, nOffset, 0, nEndOffset - nPos)

\* the true matches of position i, each at its full length, by increasing offset
RECURSIVE TrueMatches(_, _, _, _)
TrueMatches(pInWindow, i, nEndOffset, o) ==
    IF o > i THEN <<>>
    ELSE (IF CommonLen(pInWindow, i, o, nEndOffset) >= 1
          THEN <<[length |-> CommonLen(pInWindow, i, o, nEndOffset), offset |-> o, depth |-> 0]>>
          ELSE <<>>)
         \o TrueMatches(pInWindow, i, nEndOffset, o + 1)

\* what a position can be offered: nothing, one of its true matches, or all of them
OfferedSet(pInWindow, i, nEndOffset) ==
    LET all == TrueMatches(pInWindow, i, nEndOffset, 1)
    IN  {<<>>, all} \cup {<<all[x]>> : x \in 1..Len(all)}

\* the match tables of the positions i .. nEndOffset - 1
RECURSIVE TableSet(_, _, _)
TableSet(pInWindow, i, nEndOffset) ==
    IF i >= nEndOffset THEN {<<>>}
    ELSE {<<e>> \o t : e \in OfferedSet(pInWindow, i, nEndOffset),
                       t \in TableSet(pInWindow, i + 1, nEndOffset)}

ZeroBestMatch(n) == [k \in 1..n |-> [length |-> 0, offset |-> 0]]

InitParse ==
    /\ \E n \in 1..MaxParseLen, nStartOffset \in {0, 1}, nBlockFlags \in 0..3, nRep \in {1, 2} :
       \E pInWindow \in [1..n -> ParseBytes] :
       \E match \in TableSet(pInWindow, nStartOffset, n) :
          /\ nStartOffset < n
          /\ HasFlag(nBlockFlags, 1) => nRep = 1
          /\ ~HasFlag(nBlockFlags, 1) => nStartOffset >= 1
          /\ cmp = of_enter_tables([CmpIdle EXCEPT !.block_size = 1024, !.match = match,
                                       !.best_match = ZeroBestMatch(n - nStartOffset)],
                                   nStartOffset, n, 0, nRep)
          /\ fwd = EnterOptimizeForward(pInWindow, nStartOffset, n, 0, nRep,
                                        NARRIVALS_PER_POSITION, nBlockFlags, 1024)
          /\ drv = [DrvIdle EXCEPT !.nCurRepMatchOffset = nRep]
    /\ wr = NewWriter(0)
    /\ call = CallNone
    /\ nOps = 0
    /\ blk = BlkIdle

NextParse == OF_Literals \/ OF_Match \/ OF_Walk

SpecParse == InitParse /\ [][NextParse]_vars

(***************************************************************************)
(* C2                                                                      *)
(***************************************************************************)
\* bits of the header of a run of n literals
LiteralRunBits(n) == IF n > 0 THEN 1 + GammaSize(n) ELSE 0

\* bits of one more literal after nNumLiterals literals
NextLiteralBits(nNumLiterals) ==
    (8 + LiteralRunBits(nNumLiterals + 1)) - LiteralRunBits(nNumLiterals)

\* bits of a match with its offset: token, high part of the offset, 7 low bits, length - 1
OffsetMatchBits(nMatchOffset, nMatchLen) ==
    ((1 + GammaSize(((nMatchOffset - 1) \div 128) + 1)) + 7) + GammaSize(nMatchLen - 1)

\* bits of a rep-match: token and length
RepMatchBits(nMatchLen) == 1 + GammaSize(nMatchLen)

\* bits of the commands of best from position i on, nNumLiterals literals pending
RECURSIVE ParseBits(_, _, _, _, _, _)
ParseBits(best, nStartOffset, nEndOffset, i, nRepMatchOffset, nNumLiterals) ==
    IF i >= nEndOffset THEN 0
    ELSE LET pMatch == best[(i - nStartOffset) + 1]
         IN  IF wb_is_match(pMatch, nRepMatchOffset, nNumLiterals)
             THEN (IF pMatch.offset = nRepMatchOffset /\ nNumLiterals # 0
                   THEN RepMatchBits(pMatch.length)
                   ELSE OffsetMatchBits(pMatch.offset, pMatch.length))
                  + ParseBits(best, nStartOffset, nEndOffset, i + pMatch.length, pMatch.offset, 0)
             ELSE NextLiteralBits(nNumLiterals)
                  + ParseBits(best, nStartOffset, nEndOffset, i + 1, nRepMatchOffset,
                              nNumLiterals + 1)

\* the matches offered at position i: every entry, and the entry less its depth
OfferedAt(match, nStartOffset, i) ==
    LET entries == match[(i - nStartOffset) + 1]
    IN  UNION {{[offset |-> entries[x].offset, length |-> entries[x].length],
                [offset |-> entries[x].offset - (entries[x].depth % 16384),
                 length |-> entries[x].length - (entries[x].depth % 16384)]} :
               x \in 1..Len(entries)}

SetMin(S) == CHOOSE x \in S : \A y \in S : x <= y

\* the least number of bits of a parse of [i, nEndOffset) made of literals, matches at the
\* offered offsets with a landing length from 2 to the offered length, and rep-matches
RECURSIVE MinParseBits(_, _, _, _, _, _, _, _)
MinParseBits(pInWindow, match, nStartOffset, nEndOffset, nBlockFlags, i, nRepMatchOffset, nNumLiterals) ==
    IF i >= nEndOffset THEN 0
    ELSE SetMin(
        {NextLiteralBits(nNumLiterals)
           + MinParseBits(pInWindow, match, nStartOffset, nEndOffset, nBlockFlags, i + 1,
                          nRepMatchOffset, nNumLiterals + 1)}
        \cup
        (IF i = nStartOffset /\ HasFlag(nBlockFlags, 1) THEN {}
         ELSE
           UNION {{OffsetMatchBits(o.offset, k)
                     + MinParseBits(pInWindow, match, nStartOffset, nEndOffset, nBlockFlags,
                                    i + k, o.offset, 0) :
                   k \in 2..(IF o.offset # nRepMatchOffset \/ nNumLiterals = 0
                             THEN Min(o.length, nEndOffset - i) ELSE 0)} :
                  o \in OfferedAt(match, nStartOffset, i)}
           \cup
           {RepMatchBits(k)
              + MinParseBits(pInWindow, match, nStartOffset, nEndOffset, nBlockFlags,
                             i + k, nRepMatchOffset, 0) :
            k \in 1..(IF nNumLiterals > 0 /\ nRepMatchOffset > 0 /\ i >= nRepMatchOffset
                      THEN CommonLen(pInWindow, i, nRepMatchOffset, nEndOffset) ELSE 0)}))

\* the commands of best from position i on are commands of that kind and end at the block end
RECURSIVE ParseInClass(_, _, _, _, _, _, _, _)
ParseInClass(best, pInWindow, match, nStartOffset, nEndOffset, i, nRepMatchOffset, nNumLiterals) ==
    IF i >= nEndOffset THEN i = nEndOffset
    ELSE LET pMatch == best[(i - nStartOffset) + 1]
         IN  IF pMatch.length = 0
             THEN ParseInClass(best, pInWindow, match, nStartOffset, nEndOffset, i + 1,
                               nRepMatchOffset, nNumLiterals + 1)
             ELSE /\ IF pMatch.offset = nRepMatchOffset /\ nNumLiterals > 0
                     THEN /\ i >= nRepMatchOffset
                          /\ pMatch.length <= CommonLen(pInWindow, i, nRepMatchOffset, nEndOffset)
                     ELSE /\ pMatch.length >= 2
                          /\ \E o \in OfferedAt(match, nStartOffset, i) :
                                o.offset = pMatch.offset /\ pMatch.length <= o.length
                  /\ ParseInClass(best, pInWindow, match, nStartOffset, nEndOffset,
                                  i + pMatch.length, pMatch.offset, 0)

\* slot 0 of the block end
EndArrival == At(cmp.arrival[(fwd.nEndOffset - fwd.nStartOffset) + 1], 0)

SelectedBits ==
    ParseBits(cmp.best_match, fwd.nStartOffset, fwd.nEndOffset, fwd.nStartOffset,
              fwd.nCurRepMatchOffset, 0)

LeastBits ==
    MinParseBits(fwd.pInWindow, cmp.match, fwd.nStartOffset, fwd.nEndOffset, fwd.nBlockFlags,
                 fwd.nStartOffset, fwd.nCurRepMatchOffset, 0)

AllLiteralsBits == (8 * (fwd.nEndOffset - fwd.nStartOffset))
                   + LiteralRunBits(fwd.nEndOffset - fwd.nStartOffset)

FinalPassDone == fwd.pc = "done" /\ fwd.nInsertForwardReps = 0

salvador_get_max_compressed_size(nInputSize) ==
    (((nInputSize + 65535) \div 65536) * 128) + nInputSize

\* the matches the match finder reports at position i: every offset up to nMaxOffset, among
\* the NMATCHES_PER_INDEX nearest, at which at least two bytes match, by increasing offset,
\* each at its full length
RECURSIVE FoundMatches(_, _, _, _, _)
FoundMatches(pInWindow, i, nEndOffset, nMaxOffset, o) ==
    IF o > i \/ o > nMaxOffset \/ o > NMATCHES_PER_INDEX THEN <<>>
    ELSE (IF CommonLen(pInWindow, i, o, nEndOffset) >= 2
          THEN <<[length |-> CommonLen(pInWindow, i, o, nEndOffset), offset |-> o, depth |-> 0]>>
          ELSE <<>>)
         \o FoundMatches(pInWindow, i, nEndOffset, nMaxOffset, o + 1)

\* salvador_find_all_matches: the match table of the block; a finder that reports nothing
\* leaves every position to the supplementation passes
salvador_find_all_matches(pInWindow, nStartOffset, nEndOffset, nMaxOffset, finder) ==
    [p \in 1..(nEndOffset - nStartOffset) |->
        IF finder = "all"
        THEN FoundMatches(pInWindow, (nStartOffset + p) - 1, nEndOffset, nMaxOffset, 1)
        ELSE <<>>]

\* the configurations of a call: nFlags, nMaxWindowSize, nMaxOutBufferSize
CompressConfigSet ==
    {<<0, 0, 40>>, <<FLG_IS_INVERTED, 0, 40>>, <<0, 1, 40>>, <<FLG_IS_INVERTED, 0, MaxOutBuffer>>,
     <<0, MAX_OFFSET + 1, 40>>}

\* the values an entry read past the end of best_match can have
JunkMatchSet ==
    {[length |-> 0, offset |-> 0], [length |-> 2, offset |-> 1], [length |-> 400, offset |-> 1]}

InitCompress ==
    /\ \E n \in 0..MaxInputLen, nDictionarySize \in 0..MaxDictionary, cfg \in CompressConfigSet :
       \E pInputData \in [1..n -> ParseBytes], finder \in {"none", "all", "fail"} :
          /\ nDictionarySize <= n
          /\ finder = "fail" => cfg = <<0, 0, 40>>
          /\ drv = [DrvIdle EXCEPT
                       !.pc = "loop", !.pInputData = pInputData, !.nInputSize = n,
                       !.nMaxOutBufferSize = cfg[3], !.nDictionarySize = nDictionarySize,
                       !.nMaxWindowSize = cfg[2],
                       !.finder = finder,
                       !.nBlockSize = IF n < BLOCK_SIZE THEN (IF n < 1024 THEN 1024 ELSE n)
                                      ELSE BLOCK_SIZE,
                       !.nMaxOutBlockSize =
                           salvador_get_max_compressed_size(
                               IF n < BLOCK_SIZE THEN (IF n < 1024 THEN 1024 ELSE n)
                               ELSE BLOCK_SIZE),
                       !.nOriginalSize = nDictionarySize,
                       !.nPreviousBlockSize = nDictionarySize,
                       !.nBlockFlags = 1]
          /\ cmp = [CmpIdle EXCEPT
                       !.flags = cfg[1],
                       !.block_size = IF n < BLOCK_SIZE THEN (IF n < 1024 THEN 1024 ELSE n)
                                      ELSE BLOCK_SIZE,
                       !.max_offset = IF cfg[2] # 0 THEN cfg[2] ELSE MAX_OFFSET]
          /\ wr = NewWriter(cfg[3])
    /\ call = CallNone
    /\ nOps = 0
    /\ blk = BlkIdle
    /\ fwd = FwdIdle

\* the loop test of salvador_compress
InLoop == drv.nOriginalSize < drv.nInputSize /\ drv.nError = 0

\* the head of the loop body and salvador_compressor_shrink_block up to the first call of
\* salvador_optimize_forward: the match finder, the first supplementation pass
D_BlockStart ==
    /\ drv.pc = "loop"
    /\ InLoop
    /\ \E nInDataSize \in {Min(drv.nInputSize - drv.nOriginalSize, drv.nBlockSize)} :
       \E nEndOffset \in {drv.nPreviousBlockSize + nInDataSize},
          nBlockFlags \in {IF (drv.nOriginalSize + nInDataSize) >= drv.nInputSize
                           THEN (drv.nBlockFlags % 2) + 2 ELSE drv.nBlockFlags},
          pInWindow \in {SubSeq(drv.pInputData, (drv.nOriginalSize - drv.nPreviousBlockSize) + 1,
                                drv.nOriginalSize + nInDataSize)} :
          /\ drv' = [drv EXCEPT !.pc = IF drv.finder = "fail" THEN "write" ELSE "pass1",
                                !.nInDataSize = nInDataSize,
                                !.nBlockFlags = nBlockFlags,
                                !.pInWindow = pInWindow,
                                !.stats0 = cmp.stats]
          /\ wr' = [wr EXCEPT !.base = drv.nCompressedSize,
                              !.nOutOffset = 0,
                              !.nMaxOutDataSize = Min(drv.nMaxOutBufferSize - drv.nCompressedSize,
                                                      drv.nMaxOutBlockSize)]
          /\ IF drv.finder = "fail"
             THEN /\ blk' = [BlkIdle EXCEPT !.pc = "done", !.ret = -1]
                  /\ UNCHANGED <<cmp, fwd>>
             ELSE /\ cmp' = of_enter_tables(
                                [cmp EXCEPT
                                    !.match = supplement_small_matches(
                                                  salvador_find_all_matches(
                                                      pInWindow, drv.nPreviousBlockSize,
                                                      nEndOffset, cmp.max_offset, drv.finder),
                                                  pInWindow, drv.nPreviousBlockSize, nEndOffset,
                                                  cmp.max_offset),
                                    !.best_match = ZeroBestMatch(nInDataSize)],
                                drv.nPreviousBlockSize, nEndOffset, 1, drv.nCurRepMatchOffset)
                  /\ fwd' = EnterOptimizeForward(pInWindow, drv.nPreviousBlockSize, nEndOffset,
                                                 1, drv.nCurRepMatchOffset,
                                                 NARRIVALS_PER_POSITION \div 2, nBlockFlags,
                                                 cmp.block_size)
                  /\ blk' = blk
    /\ UNCHANGED <<call, nOps>>

\* after the first pass: the second supplementation pass, then the final pass begins
D_PassB ==
    /\ drv.pc = "pass1"
    /\ fwd.pc = "done"
    /\ \E st \in {supplement_matches_further(
                      [match |-> cmp.match, visited |-> cmp.visited], cmp.arrival,
                      fwd.pInWindow, fwd.nStartOffset, fwd.nEndOffset, fwd.nStartOffset + 1,
                      cmp.max_offset)} :
          /\ cmp' = of_enter_tables([cmp EXCEPT !.match = st.match, !.visited = st.visited],
                                    fwd.nStartOffset, fwd.nEndOffset, 0, drv.nCurRepMatchOffset)
          /\ fwd' = EnterOptimizeForward(fwd.pInWindow, fwd.nStartOffset, fwd.nEndOffset, 0,
                                         drv.nCurRepMatchOffset, NARRIVALS_PER_POSITION,
                                         fwd.nBlockFlags, cmp.block_size)
    /\ drv' = [drv EXCEPT !.pc = "final", !.nPasses = 0, !.nDidReduce = 0, !.nMaxRead = -1]
    /\ UNCHANGED <<wr, call, nOps, blk>>

\* one pass of salvador_reduce_commands: the first after the final pass, the others while
\* the pass before reduced something, 20 at most
D_Reduce ==
    /\ \/ drv.pc = "final" /\ fwd.pc = "done"
       \/ drv.pc = "reduce" /\ drv.nDidReduce # 0 /\ drv.nPasses < 20
    /\ \E pJunk \in IF (fwd.nEndOffset - fwd.nStartOffset) < cmp.block_size
                    THEN {[length |-> 0, offset |-> 0]} ELSE JunkMatchSet :
       \E st \in {salvador_reduce_commands(cmp.best_match, fwd.pInWindow, fwd.nStartOffset,
                                           fwd.nEndOffset, drv.nCurRepMatchOffset,
                                           fwd.nBlockFlags, pJunk)} :
          /\ cmp' = [cmp EXCEPT !.best_match = st.best]
          /\ drv' = [drv EXCEPT !.pc = "reduce", !.nDidReduce = st.nDidReduce,
                                !.nPasses = drv.nPasses + 1, !.nMaxRead = st.nMaxRead]
    /\ UNCHANGED <<wr, call, nOps, blk, fwd>>

\* the call of salvador_write_block
D_Write ==
    /\ drv.pc = "reduce"
    /\ ~(drv.nDidReduce # 0 /\ drv.nPasses < 20)
    /\ blk' = EnterWriteBlock(fwd.pInWindow, fwd.nStartOffset, fwd.nEndOffset, fwd.nBlockFlags,
                              drv.nCurRepMatchOffset, wr)
    /\ drv' = [drv EXCEPT !.pc = "write"]
    /\ UNCHANGED <<wr, call, nOps, cmp, fwd>>

\* a variant that counts no byte of the block as consumed
db_consumed_none(nInDataSize, nCurFinalLiterals) == 0

\* a variant that counts the whole block as consumed
db_consumed_all(nInDataSize, nCurFinalLiterals) == nInDataSize

\* the bytes of a block the driver counts as consumed: nInDataSize -= nCurFinalLiterals
db_consumed(nInDataSize, nCurFinalLiterals) == nInDataSize - nCurFinalLiterals

\* the record of a block in the history: nStart is the input position of its first byte,
\* nDeferred the final literals it returned, spans the input positions its commands cover
BlockRecord ==
    [nBlockFlags |-> drv.nBlockFlags,
     kind |-> blk.last.kind,
     nOutDataSize |-> blk.ret,
     t0 |-> Len(blk.last.pre.trace),
     t1 |-> Len(wr.trace),
     offsets |-> blk.matches,
     nStart |-> drv.nOriginalSize,
     nInDataSize |-> drv.nInDataSize,
     nDeferred |-> drv.nCurFinalLiterals,
     spans |-> [k \in DOMAIN blk.spans |->
                   [pos |-> (drv.nOriginalSize - drv.nPreviousBlockSize) + blk.spans[k].pos,
                    len |-> blk.spans[k].len]]]

\* the rest of the loop body, after salvador_compressor_shrink_block returned blk.ret
D_BlockEnd ==
    /\ drv.pc = "write"
    /\ blk.pc = "done"
    /\ IF blk.ret >= 0 /\ drv.nCurFinalLiterals >= 0 /\ drv.nCurFinalLiterals < drv.nInDataSize
       THEN /\ drv' = [drv EXCEPT
                          !.pc = "loop",
                          !.nBlockFlags = (@ \div 2) * 2,
                          !.nInDataSize = db_consumed(@, drv.nCurFinalLiterals),
                          !.nOriginalSize = @ + db_consumed(drv.nInDataSize,
                                                            drv.nCurFinalLiterals),
                          !.nCurFinalLiterals = 0,
                          !.nCompressedSize = @ + blk.ret,
                          !.nPreviousBlockSize = db_consumed(drv.nInDataSize,
                                                             drv.nCurFinalLiterals),
                          !.nNumBlocks = @ + 1,
                          !.blocks = Append(@, BlockRecord)]
            /\ wr' = [wr EXCEPT !.nCurBitsOffset = IF @ # INT_MIN THEN @ - blk.ret ELSE @]
       ELSE /\ drv' = [drv EXCEPT
                          !.pc = "loop",
                          !.nBlockFlags = (@ \div 2) * 2,
                          !.nError = -1,
                          !.nPreviousBlockSize = drv.nInDataSize,
                          !.nNumBlocks = @ + 1,
                          !.blocks = Append(@, BlockRecord)]
            /\ wr' = wr
    /\ UNCHANGED <<call, nOps, cmp, blk, fwd>>

\* after the loop: the statistics are copied out and the size or -1 is returned
D_Return ==
    /\ drv.pc = "loop"
    /\ ~InLoop
    /\ drv' = [drv EXCEPT !.pc = "returned",
                          !.pStats = <<cmp.stats>>,
                          !.ret = IF drv.nError # 0 THEN -1 ELSE drv.nCompressedSize]
    /\ UNCHANGED <<wr, call, nOps, cmp, blk, fwd>>

Next ==
    \/ D_BlockStart \/ OF_Literals \/ OF_Match \/ OF_Walk \/ D_PassB \/ D_Reduce \/ D_Write
    \/ WB_Literal \/ WB_Match \/ WB_End \/ D_BlockEnd \/ D_Return

Spec == InitCompress /\ [][Next]_vars

(***************************************************************************)
(* The reference ZX0 decoder                                               *)
(***************************************************************************)
\* a reader at the start of the stream pIn, and the output so far
DzStart(pIn, pOut) ==
    [pIn |-> pIn, dpos |-> 0, bitmask |-> 0, bitval |-> 0, backtrack |-> FALSE, lastbyte |-> 0,
     derr |-> FALSE, v |-> 0, out |-> pOut, last |-> 1]

\* the next byte of the stream in v; reading past the end is an error
dz_read_byte(r) ==
    IF r.dpos >= Len(r.pIn) THEN [r EXCEPT !.derr = TRUE, !.v = 0]
    ELSE [r EXCEPT !.lastbyte = At(r.pIn, r.dpos), !.v = At(r.pIn, r.dpos), !.dpos = @ + 1]

\* the next bit in v: the low bit of the last offset byte once, then the bits of the bit
\* bytes from the high bit down
dz_read_bit(r) ==
    IF r.backtrack THEN [r EXCEPT !.backtrack = FALSE, !.v = r.lastbyte % 2]
    ELSE IF r.bitmask \div 2 = 0
    THEN LET b == dz_read_byte(r)
         IN  [b EXCEPT !.bitmask = 128, !.bitval = b.v, !.v = (b.v \div 128) % 2]
    ELSE [r EXCEPT !.bitmask = r.bitmask \div 2, !.v = (r.bitval \div (r.bitmask \div 2)) % 2]

\* an interlaced Elias-gamma value in v: each 0 bit announces a data bit, a 1 bit ends it
RECURSIVE dz_read_gamma(_, _, _)
dz_read_gamma(r, nIsInverted, nValue) ==
    LET a == dz_read_bit(r)
    IN  IF a.derr \/ a.v = 1 THEN [a EXCEPT !.v = nValue]
        ELSE LET b == dz_read_bit(a)
                 n == (2 * nValue) + (IF b.v = nIsInverted THEN 0 ELSE 1)
             IN  IF n > 1048576 THEN [b EXCEPT !.derr = TRUE, !.v = n]
                 ELSE dz_read_gamma(b, nIsInverted, n)

\* n literal bytes are copied from the stream
RECURSIVE dz_copy_literals(_, _)
dz_copy_literals(r, n) ==
    IF n = 0 \/ r.derr THEN r
    ELSE LET b == dz_read_byte(r)
         IN  dz_copy_literals(IF b.derr THEN b ELSE [b EXCEPT !.out = Append(@, b.v)], n - 1)

\* n bytes are copied from r.last bytes back in the output
RECURSIVE dz_copy_match(_, _)
dz_copy_match(r, n) ==
    IF n = 0 \/ r.derr THEN r
    ELSE IF r.last > Len(r.out) THEN [r EXCEPT !.derr = TRUE]
    ELSE dz_copy_match([r EXCEPT !.out = Append(@, r.out[(Len(r.out) - r.last) + 1])], n - 1)

\* the decoder from one of its three states on; nCap bounds the output
RECURSIVE dz_run(_, _, _, _)
dz_run(r, state, nIsInverted, nCap) ==
    IF r.derr THEN [ok |-> FALSE, out |-> r.out]
    ELSE IF state = "literals"
    THEN LET g == dz_read_gamma(r, 0, 1)
         IN  IF g.derr \/ Len(g.out) + g.v > nCap THEN [ok |-> FALSE, out |-> g.out]
             ELSE LET b == dz_read_bit(dz_copy_literals(g, g.v))
                  IN  dz_run(b, IF b.v = 1 THEN "new_offset" ELSE "last_offset", nIsInverted,
                             nCap)
    ELSE IF state = "last_offset"
    THEN LET g == dz_read_gamma(r, 0, 1)
         IN  IF g.derr \/ Len(g.out) + g.v > nCap THEN [ok |-> FALSE, out |-> g.out]
             ELSE LET b == dz_read_bit(dz_copy_match(g, g.v))
                  IN  dz_run(b, IF b.v = 1 THEN "new_offset" ELSE "literals", nIsInverted, nCap)
    ELSE LET o == dz_read_gamma(r, nIsInverted, 1)
         IN  IF o.derr THEN [ok |-> FALSE, out |-> o.out]
             ELSE IF o.v = EOD_VALUE THEN [ok |-> o.dpos = Len(o.pIn), out |-> o.out]
             ELSE LET lo == dz_read_byte(o)
                      g == dz_read_gamma([lo EXCEPT !.last = (o.v * 128) - (lo.v \div 2),
                                                    !.backtrack = TRUE], 0, 1)
                  IN  IF lo.derr \/ g.derr \/ (Len(g.out) + g.v) + 1 > nCap
                      THEN [ok |-> FALSE, out |-> g.out]
                      ELSE LET b == dz_read_bit(dz_copy_match(g, g.v + 1))
                           IN  dz_run(b, IF b.v = 1 THEN "new_offset" ELSE "literals",
                                      nIsInverted, nCap)

\* the stream pIn decoded after the dictionary pDictionary: whether the decoder reached the
\* end marker at the end of the stream, and the dictionary followed by the decoded bytes
dzx0_decode(pIn, pDictionary, nIsInverted, nCap) ==
    dz_run(DzStart(pIn, pDictionary), "literals", nIsInverted, nCap)

(***************************************************************************)
(* C1                                                                      *)
(***************************************************************************)
\* salvador_compress has returned a size
Succeeded == drv.pc = "returned" /\ drv.ret >= 0

\* the bytes salvador_compress produced
OutputBytes == SubSeq(wr.pOutData, 1, drv.ret)

\* decoding the produced bytes after the dictionary prefix gives back the whole input
RoundTrips ==
    dzx0_decode(OutputBytes, SubSeq(drv.pInputData, 1, drv.nDictionarySize),
                IsInverted, drv.nInputSize)
    = [ok |-> TRUE, out |-> drv.pInputData]

\* C1: whenever salvador_compress returns success, the reference decoder, started with
\* rep-offset 1 and reading offsets inverted iff FLG_IS_INVERTED, turns the produced bytes
\* into exactly the input bytes that follow the dictionary prefix
C1_RoundTrip == Succeeded => RoundTrips

\* the same for every call in which at least one byte follows the dictionary
C1_RoundTripOfPayload ==
    (Succeeded /\ drv.nDictionarySize < drv.nInputSize) => RoundTrips

\* a call on the empty input returns 0 bytes, which do not decode
C1_Witness ==
    /\ Succeeded
    /\ drv.nInputSize = 0
    /\ drv.ret = 0
    /\ ~RoundTrips

\* a two-block compression with a dictionary that round-trips
C1_PayloadWitness ==
    /\ Succeeded
    /\ drv.nNumBlocks = 2
    /\ drv.nDictionarySize = 1
    /\ HasFlag(cmp.flags, FLG_IS_INVERTED)
    /\ \E k \in 1..Len(drv.blocks) : drv.blocks[k].nOutDataSize > 0
    /\ RoundTrips

(***************************************************************************)
(* C8                                                                      *)
(***************************************************************************)
\* the blocks that ended with the end-of-data marker
EodBlocks == {k \in 1..Len(drv.blocks) : drv.blocks[k].kind = "eod"}

\* the events of the end-of-data marker
EodEvents ==
    BitEvents(<<1>> \o GammaCode(EOD_VALUE, IsInverted))

\* the marker is written once, by the last block, which is flagged last, as the last thing
\* written
EodOnceAtEnd ==
    /\ EodBlocks = {Len(drv.blocks)}
    /\ Len(drv.blocks) >= 1
    /\ HasFlag(drv.blocks[Len(drv.blocks)].nBlockFlags, 2)
    /\ drv.blocks[Len(drv.blocks)].t1 = Len(wr.trace)
    /\ SubSeq(wr.trace, drv.blocks[Len(drv.blocks)].t0 + 1, Len(wr.trace)) = EodEvents

\* a block not flagged last never writes the marker
EodOnlyByLast ==
    \A k \in 1..Len(drv.blocks) :
        drv.blocks[k].kind = "eod" => HasFlag(drv.blocks[k].nBlockFlags, 2)

\* C8: in every successful compression of a non-empty input the end-of-data marker, a 1 bit
\* and the gamma code of 256 (inverted iff FLG_IS_INVERTED), is written exactly once, by the
\* block flagged last and after all its literals and matches; a block not flagged last never
\* writes it
C8_EndOfData ==
    /\ (Succeeded /\ drv.nInputSize > 0) => EodOnceAtEnd
    /\ EodOnlyByLast

\* the same for every call in which at least one byte follows the dictionary
C8_EndOfDataOfPayload ==
    /\ (Succeeded /\ drv.nDictionarySize < drv.nInputSize) => EodOnceAtEnd
    /\ EodOnlyByLast

\* a successful call on a non-empty input that is all dictionary: no block, no marker
C8_Witness ==
    /\ Succeeded
    /\ drv.nInputSize > 0
    /\ drv.nDictionarySize = drv.nInputSize
    /\ drv.blocks = <<>>
    /\ wr.trace = <<>>

\* a successful compression in two blocks: only the second wrote the marker
C8_PayloadWitness ==
    /\ Succeeded
    /\ Len(drv.blocks) = 2
    /\ drv.blocks[1].kind # "eod"
    /\ EodOnceAtEnd

(***************************************************************************)
(* C11                                                                     *)
(***************************************************************************)
\* salvador_write_block has returned -1 for the current block
BlockFailed == drv.pc = "write" /\ blk.pc = "done" /\ blk.ret = -1 /\ blk.last.kind = "fail"

\* C11: when salvador_write_block returns -1 the statistics of the compressor are those
\* it had before the block, and *pStats is filled only when salvador_compress returns
\* successfully
C11_StatsOnlyOnSuccess ==
    /\ BlockFailed => cmp.stats = drv.stats0
    /\ (drv.pc = "returned" /\ drv.ret < 0) => drv.pStats = <<>>

\* a failed call that filled *pStats with statistics of the commands of the failed block
C11_Witness ==
    /\ drv.pc = "returned"
    /\ drv.ret = -1
    /\ drv.pStats # <<>>
    /\ drv.pStats[1].match_divisor > drv.stats0.match_divisor

(***************************************************************************)
(* C12                                                                     *)
(***************************************************************************)
RECURSIVE EmittedOffsets(_)
\* the offsets of the matches emitted by the blocks of a history, in stream order
EmittedOffsets(blocks) ==
    IF blocks = <<>> THEN <<>>
    ELSE EmittedOffsets(SubSeq(blocks, 1, Len(blocks) - 1)) \o blocks[Len(blocks)].offsets

\* the offset of the last match of a sequence of offsets, 1 if there is none
LastOffset(offsets) == IF offsets = <<>> THEN 1 ELSE offsets[Len(offsets)]

\* C12: inside salvador_write_block the rep-offset register is the offset of the most
\* recently emitted match (the carried value before the first match of the block); the
\* value carried to the next block is the offset of the last match emitted so far in the
\* stream, 1 if there is none; a block that returns -1 leaves the carried value unchanged
C12_RepOffsetRegister ==
    /\ (drv.pc = "write" /\ ~(blk.pc = "done" /\ blk.ret = -1)) =>
           blk.nRepMatchOffset = LastOffset(EmittedOffsets(drv.blocks) \o blk.matches)
    /\ (drv.pc = "write" /\ blk.pc = "loop") =>
           drv.nCurRepMatchOffset = LastOffset(EmittedOffsets(drv.blocks))
    /\ (drv.pc = "write" /\ blk.pc = "done" /\ blk.ret >= 0) =>
           drv.nCurRepMatchOffset = LastOffset(EmittedOffsets(drv.blocks) \o blk.matches)
    /\ (drv.pc = "write" /\ blk.pc = "done" /\ blk.ret = -1) =>
           drv.nCurRepMatchOffset = LastOffset(EmittedOffsets(drv.blocks))
    /\ (drv.pc = "loop" /\ drv.nError = 0) =>
           drv.nCurRepMatchOffset = LastOffset(EmittedOffsets(drv.blocks))

\* a later block that received an offset other than 1 from the blocks before it and has
\* itself emitted a match at another offset
C12_Witness ==
    /\ drv.pc = "write"
    /\ blk.pc = "done"
    /\ blk.ret >= 0
    /\ Len(drv.blocks) >= 1
    /\ LastOffset(EmittedOffsets(drv.blocks)) = 2
    /\ blk.matches # <<>>
    /\ drv.nCurRepMatchOffset = 1

(***************************************************************************)
(* C13                                                                     *)
(***************************************************************************)
\* salvador_write_block has just written a match command
MatchWritten == drv.pc = "write" /\ blk.last.kind \in {"rep", "match"}

\* C13 as stated: every match command that the parser produced, the reducer kept and
\* the emitter wrote has length >= 2
C13_MatchLenAtLeast2 ==
    MatchWritten => blk.last.nMatchLen >= 2

\* the arrival that arrival a was derived from
ArrivalPred(a) == cmp.arrival[(a.from_pos - fwd.nStartOffset) + 1][a.from_slot]

\* arrival a was made by a rep-match transition: it keeps the rep-offset of an arrival
\* that ends in literals
IsRepArrival(a) ==
    ArrivalPred(a).num_literals # 0 /\ ArrivalPred(a).rep_offset = a.rep_offset

\* C13: in the arrival table every match of a single byte is a rep-match (non-rep matches
\* have length >= 2); every written match with an offset has length >= 2 and every
\* written rep-match has length >= 1 and follows literals
C13_MatchLengths ==
    /\ \A q \in DOMAIN cmp.arrival : \A n \in DOMAIN cmp.arrival[q] :
           (cmp.arrival[q][n].from_slot > 0 /\ cmp.arrival[q][n].match_len = 1) =>
               IsRepArrival(cmp.arrival[q][n])
    /\ MatchWritten =>
           /\ blk.last.kind = "match" => blk.last.nMatchLen >= 2
           /\ blk.last.kind = "rep" => blk.last.nMatchLen >= 1 /\ blk.last.nNumLiterals >= 1

\* a rep-match of length 1 written into the stream
C13_Witness ==
    /\ MatchWritten
    /\ blk.pc = "loop"
    /\ blk.last.kind = "rep"
    /\ blk.last.nMatchLen = 1

(***************************************************************************)
(* SpecInit: salvador_compressor_init, one allocation at a time, and the   *)
(* calls of salvador_compressor_destroy that follow it                     *)
(***************************************************************************)
\* number of calls of salvador_compressor_destroy made after salvador_compressor_init
MaxDestroyCalls == 8

\* the arenas of the context in the order salvador_compressor_init allocates them
ArenaOrder ==
    <<"intervals", "pos_data", "open_intervals", "arrival", "best_match", "match",
      "match_depth", "first_offset_for_byte", "next_offset_for_pos", "offset_cache">>

\* a destroy that frees the arenas but leaves the pointers as they are
salvador_compressor_destroy_no_reset(ptr, frees) ==
    [ptr |-> ptr,
     frees |-> [b \in DOMAIN frees |->
                   frees[b] + Cardinality({n \in DOMAIN ArenaOrder : ptr[ArenaOrder[n]] = b})]]

\* salvador_compressor_destroy: every arena whose pointer is not NULL is freed and its
\* pointer set to NULL; frees[b] counts the calls of free on block b
salvador_compressor_destroy(ptr, frees) ==
    [ptr |-> [a \in DOMAIN ptr |-> NULL],
     frees |-> [b \in DOMAIN frees |->
                   frees[b] + Cardinality({n \in DOMAIN ArenaOrder : ptr[ArenaOrder[n]] = b})]]

\* salvador_compressor_init after its prologue: every pointer NULL, the result of
\* divsufsort_init in nResult, the next allocation is ArenaOrder[step]
InitCompressorInit ==
    /\ \E nResult \in {0, 1} :
          cmp = [pc |-> "init", nResult |-> nResult, nMaxArrivals |-> NARRIVALS_PER_POSITION,
                 step |-> 1, ret |-> 0,
                 ptr |-> [a \in {ArenaOrder[n] : n \in DOMAIN ArenaOrder} |-> NULL]]
    /\ call = [frees |-> <<>>]
    /\ nOps = 0
    /\ wr = NewWriter(0)
    /\ blk = BlkIdle
    /\ drv = DrvIdle
    /\ fwd = FwdIdle

\* one malloc that succeeds: block Len(frees) + 1 is handed out; after the last one
\* salvador_compressor_init returns 0
CI_Malloc ==
    /\ cmp.pc = "init"
    /\ cmp.nResult = 0
    /\ \E last \in {IF cmp.nMaxArrivals = NARRIVALS_PER_POSITION
                     THEN cmp.step = Len(ArenaOrder) ELSE cmp.step = Len(ArenaOrder) - 1} :
          cmp' = [cmp EXCEPT !.ptr[ArenaOrder[cmp.step]] = Len(call.frees) + 1,
                             !.step = @ + 1,
                             !.pc = IF last THEN "returned" ELSE @,
                             !.ret = 0]
    /\ call' = [call EXCEPT !.frees = Append(@, 0)]
    /\ UNCHANGED <<wr, nOps, blk, drv, fwd>>

\* divsufsort_init failed or the next malloc returns NULL: salvador_compressor_destroy
\* is called and salvador_compressor_init returns 100
CI_Fail ==
    /\ cmp.pc = "init"
    /\ \E d \in {salvador_compressor_destroy(cmp.ptr, call.frees)} :
          /\ cmp' = [cmp EXCEPT !.ptr = d.ptr, !.pc = "returned", !.ret = 100]
          /\ call' = [call EXCEPT !.frees = d.frees]
    /\ UNCHANGED <<wr, nOps, blk, drv, fwd>>

\* a call of salvador_compressor_destroy on the context salvador_compressor_init left
CI_Destroy ==
    /\ cmp.pc = "returned"
    /\ nOps < MaxDestroyCalls
    /\ \E d \in {salvador_compressor_destroy(cmp.ptr, call.frees)} :
          /\ cmp' = [cmp EXCEPT !.ptr = d.ptr]
          /\ call' = [call EXCEPT !.frees = d.frees]
    /\ nOps' = nOps + 1
    /\ UNCHANGED <<wr, blk, drv, fwd>>

NextInit == CI_Malloc \/ CI_Fail \/ CI_Destroy

SpecInit == InitCompressorInit /\ [][NextInit]_vars

(***************************************************************************)
(* C14                                                                     *)
(***************************************************************************)
\* C14: when salvador_compressor_init returns 0 every arena is allocated; when it returns
\* non-zero (an allocation or divsufsort_init failed) every block allocated so far has
\* been freed and every pointer is NULL; and whatever number of calls of
\* salvador_compressor_destroy follows, no block is freed more than once
C14_InitFailureAndTeardown ==
    /\ (cmp.pc = "returned" /\ cmp.ret = 0 /\ nOps = 0) =>
           /\ \A a \in DOMAIN cmp.ptr : cmp.ptr[a] # NULL
           /\ \A b \in DOMAIN call.frees : call.frees[b] = 0
    /\ (cmp.pc = "returned" /\ cmp.ret # 0) =>
           /\ \A a \in DOMAIN cmp.ptr : cmp.ptr[a] = NULL
           /\ \A b \in DOMAIN call.frees : call.frees[b] = 1
    /\ (cmp.pc = "returned" /\ nOps > 0) =>
           /\ \A a \in DOMAIN cmp.ptr : cmp.ptr[a] = NULL
           /\ \A b \in DOMAIN call.frees : call.frees[b] = 1
    /\ \A b \in DOMAIN call.frees : call.frees[b] <= 1

\* the fourth allocation failed and salvador_compressor_destroy was called twice more
C14_Witness ==
    /\ cmp.pc = "returned"
    /\ cmp.ret = 100
    /\ cmp.step = 4
    /\ Len(call.frees) = 3
    /\ nOps = 2

(***************************************************************************)
(* C15                                                                     *)
(***************************************************************************)
\* C15: for an input of length 0 salvador_compress succeeds and its output is exactly
\* the end-of-data marker
C15_EmptyInput ==
    (drv.pc = "returned" /\ drv.nInputSize = 0) =>
        /\ drv.ret >= 0
        /\ wr.trace = EodEvents
        /\ drv.ret = Len(wr.pOutData)

\* the call on an empty input has returned 0 and no byte was written
C15_Witness ==
    /\ drv.pc = "returned"
    /\ drv.nInputSize = 0
    /\ drv.nDictionarySize = 0
    /\ drv.ret = 0
    /\ wr.pOutData = <<>>
    /\ drv.nNumBlocks = 0

(***************************************************************************)
(* C16                                                                     *)
(***************************************************************************)
\* a successful call on n copies of one byte in a single block, no dictionary, with the
\* match finder offering every earlier occurrence
ConstantBlock(n) ==
    /\ Succeeded
    /\ drv.nInputSize = n
    /\ n <= BLOCK_SIZE
    /\ drv.nDictionarySize = 0
    /\ drv.finder = "all"
    /\ \A q \in 1..n : drv.pInputData[q] = drv.pInputData[1]

\* the statistics of a stream with one literal and one match with offset 1 of n - 1 bytes
OneRunStats(n) ==
    /\ Len(drv.blocks) = 1
    /\ drv.blocks[1].offsets = <<1>>
    /\ drv.pStats[1].match_divisor = 1
    /\ drv.pStats[1].total_match_lens = n - 1
    /\ drv.pStats[1].max_rle1_len = n - 1
    /\ drv.pStats[1].total_literals = 1

\* the stream is the first byte as a literal, a rep-match of n - 1 bytes at the initial
\* rep-offset 1, and the end-of-data marker
OneRunRepMatch(n) ==
    /\ OneRunStats(n)
    /\ drv.pStats[1].num_rep_matches = 1
    /\ wr.trace = BitEvents(GammaCode(1, 0)) \o << <<"byte", drv.pInputData[1]>> >>
                   \o BitEvents(<<0>> \o GammaCode(n - 1, 0)) \o EodEvents

C17_MaxOffsetClamped ==
    /\ cmp.max_offset = IF drv.nMaxWindowSize = 0 THEN MAX_OFFSET
                         ELSE Min(drv.nMaxWindowSize, MAX_OFFSET)
    /\ \A q \in DOMAIN cmp.match : \A n \in DOMAIN cmp.match[q] :
           cmp.match[q][n].offset <= MAX_OFFSET
    /\ \A q \in DOMAIN cmp.best_match : cmp.best_match[q].offset <= MAX_OFFSET

\* a call with a window above MAX_OFFSET that has compressed a block with the limit the
\* caller asked for
C17_Witness ==
    /\ drv.nMaxWindowSize > MAX_OFFSET
    /\ cmp.max_offset = drv.nMaxWindowSize
    /\ drv.pc = "returned"
    /\ drv.nNumBlocks >= 1

(***************************************************************************)
(* C18                                                                     *)
(***************************************************************************)
\* a slot that holds an arrival
NonEmpty(a) == a.from_slot # 0

\* arrival a is not after arrival b in the order of (cost, score)
CostScoreLe(a, b) == a.cost < b.cost \/ (a.cost = b.cost /\ a.score <= b.score)

\* the arrivals of a row fill a prefix of its slots in ascending order of (cost, score)
RowOrdered(row) ==
    \A n \in 1..(Len(row) - 1) :
        NonEmpty(row[n + 1]) => NonEmpty(row[n]) /\ CostScoreLe(row[n], row[n + 1])

C19_ArrivalDominance ==
    \A q \in DOMAIN cmp.arrival : \A a, b \in DOMAIN cmp.arrival[q] :
        (a < b /\ NonEmpty(cmp.arrival[q][a]) /\ NonEmpty(cmp.arrival[q][b])) =>
            /\ cmp.arrival[q][a].rep_offset # cmp.arrival[q][b].rep_offset
            /\ cmp.arrival[q][a].cost <= cmp.arrival[q][b].cost

\* a position of the final pass with three arrivals, each with its own rep_offset
C19_Witness ==
    /\ fwd.nInsertForwardReps = 0
    /\ \E q \in DOMAIN cmp.arrival :
           /\ \A n \in 1..3 : NonEmpty(cmp.arrival[q][n])
           /\ Cardinality({cmp.arrival[q][n].rep_offset : n \in 1..3}) = 3

(***************************************************************************)
(* C20                                                                     *)
(***************************************************************************)
\* arrival a was made by a non-rep match transition
NonRepCreated(a) == a.from_slot > 0 /\ a.match_len >= 1 /\ ~IsRepArrival(a)

\* C20 as stated: the last slot of a position never holds an arrival created by a non-rep
\* match transition
C20_LastSlotReserved ==
    \A q \in DOMAIN cmp.arrival :
        fwd.nArrivalsPerPosition >= 1 =>
            ~NonRepCreated(cmp.arrival[q][fwd.nArrivalsPerPosition])

\* C20: an arrival created by a non-rep match transition is never stored into the last
\* slot K-1 of its position; it is stored into one of the slots 0..K-2, from where later
\* insertions can shift it into the last slot
C20_NonRepStoredBelowLast ==
    \A q \in DOMAIN cmp.arrival : \A n \in DOMAIN cmp.arrival[q] :
        NonRepCreated(cmp.arrival[q][n]) =>
            /\ cmp.arrival[q][n].n0 <= fwd.nArrivalsPerPosition - 2
            /\ cmp.arrival[q][n].n0 <= n - 1

\* the last slot of a position holds an arrival that a non-rep match transition stored
\* into a lower slot
C20_Witness ==
    /\ fwd.nArrivalsPerPosition >= 2
    /\ \E q \in DOMAIN cmp.arrival :
           /\ NonRepCreated(cmp.arrival[q][fwd.nArrivalsPerPosition])
           /\ cmp.arrival[q][fwd.nArrivalsPerPosition].n0 <= fwd.nArrivalsPerPosition - 2

(***************************************************************************)
(* C21                                                                     *)
(***************************************************************************)
\* the arrivals of the table that a rep-match transition made
RepArrivals ==
    {a \in UNION {{cmp.arrival[q][n] : n \in DOMAIN cmp.arrival[q]} : q \in DOMAIN cmp.arrival} :
        a.from_slot > 0 /\ a.match_len >= 1 /\ IsRepArrival(a)}

\* cost, length, literal count, score and rep_offset of a rep-match successor of a_j
RepSuccessorFields(a) ==
    /\ a.cost = PrevCost(ArrivalPred(a)) + 1 + GammaSize(a.match_len)
    /\ a.num_literals = 0
    /\ a.score = ArrivalPred(a).score + 2
    /\ a.rep_offset = ArrivalPred(a).rep_offset

\* C21 as stated: a rep-match successor of length k of arrival a_j has cost
\* a_j.cost + 1 + gamma_size(k), match_len = k, num_literals = 0, score = a_j.score + 2
\* and the rep_offset and the rep_pos of a_j
C21_RepPosCopied ==
    \A a \in RepArrivals : RepSuccessorFields(a) /\ a.rep_pos = ArrivalPred(a).rep_pos

\* C21: a rep-match successor of length k of arrival a_j at position i has cost
\* a_j.cost + 1 + gamma_size(k), match_len = k, num_literals = 0, score = a_j.score + 2
\* and the rep_offset of a_j; its rep_pos is the position i of the rep-match, which is
\* later than the rep_pos of a_j
C21_RepMatchTransition ==
    \A a \in RepArrivals :
        /\ RepSuccessorFields(a)
        /\ a.rep_pos = a.from_pos
        /\ ArrivalPred(a).rep_pos < a.from_pos

\* the table holds rep-match successors of one byte and of more, one of them following an
\* arrival whose rep_offset was set by a match of the block
C21_Witness ==
    /\ \E a \in RepArrivals : a.match_len = 1
    /\ \E a \in RepArrivals :
           /\ a.match_len >= 2
           /\ ArrivalPred(a).rep_pos >= fwd.nStartOffset
           /\ a.cost = PrevCost(ArrivalPred(a)) + 1 + GammaSize(a.match_len)

(***************************************************************************)
(* C22                                                                     *)
(***************************************************************************)
\* the final pass of salvador_optimize_forward has returned and the reducer has not run yet
FinalWalked == drv.pc = "final" /\ fwd.pc = "done"

\* the chain of from_pos/from_slot from arrival a, which sits at position nPos: every step
\* goes to a lower position by the bytes of its command, the entry written for it is the
\* command, and the chain ends on the sentinel of the block start
RECURSIVE WalkChainOk(_, _)
WalkChainOk(a, nPos) ==
    IF a.from_slot > 0
    THEN /\ a.from_pos >= fwd.nStartOffset
         /\ a.from_pos < nPos
         /\ nPos - a.from_pos = (IF a.match_len = 0 THEN 1 ELSE a.match_len)
         /\ cmp.best_match[(a.from_pos - fwd.nStartOffset) + 1] =
                [length |-> a.match_len, offset |-> IF a.match_len # 0 THEN a.rep_offset ELSE 0]
         /\ WalkChainOk(ArrivalPred(a), a.from_pos)
    ELSE a.from_slot = -1 /\ nPos = fwd.nStartOffset

\* stepping through best from position i, by 1 for a literal and by the length for a
\* match, lands exactly on nEndOffset
RECURSIVE TilesBlock(_, _, _, _)
TilesBlock(best, nStartOffset, nEndOffset, i) ==
    IF i >= nEndOffset THEN i = nEndOffset
    ELSE TilesBlock(best, nStartOffset, nEndOffset,
                    i + (IF best[(i - nStartOffset) + 1].length = 0 THEN 1
                         ELSE best[(i - nStartOffset) + 1].length))

\* C22: after the final pass slot 0 at the block end is non-empty; the chain of
\* from_pos/from_slot from it visits strictly decreasing positions and stops at the start
\* sentinel of the block; the best_match entries written on the way (length = match_len,
\* offset = rep_offset for a match and 0 for a literal) tile the block exactly
C22_BackwardWalk ==
    FinalWalked =>
        /\ cmp.arrival[(fwd.nEndOffset - fwd.nStartOffset) + 1][1].from_slot > 0
        /\ WalkChainOk(cmp.arrival[(fwd.nEndOffset - fwd.nStartOffset) + 1][1], fwd.nEndOffset)
        /\ Len(cmp.best_match) = fwd.nEndOffset - fwd.nStartOffset
        /\ TilesBlock(cmp.best_match, fwd.nStartOffset, fwd.nEndOffset, fwd.nStartOffset)

\* a walk over a block after a dictionary whose chain ends with a match of several bytes
\* and whose first entry is a literal
C22_Witness ==
    /\ FinalWalked
    /\ fwd.nStartOffset > 0
    /\ cmp.arrival[(fwd.nEndOffset - fwd.nStartOffset) + 1][1].match_len >= 2
    /\ cmp.best_match[1].length = 0
    /\ \E q \in DOMAIN cmp.best_match :
           cmp.best_match[q].length >= 2 /\ q + cmp.best_match[q].length <= Len(cmp.best_match)

(***************************************************************************)
(* C23                                                                     *)
(***************************************************************************)
\* what a read of the entry behind the last one of the block can give
JunkOfBlock ==
    IF (fwd.nEndOffset - fwd.nStartOffset) < cmp.block_size
    THEN {[length |-> 0, offset |-> 0]} ELSE JunkMatchSet

\* one more pass of salvador_reduce_commands over best leaves best as it is
ReduceFixed(best) ==
    \A pJunk \in JunkOfBlock :
        salvador_reduce_commands(best, fwd.pInWindow, fwd.nStartOffset, fwd.nEndOffset,
                                 drv.nCurRepMatchOffset, fwd.nBlockFlags, pJunk).best = best

\* this step is a pass of salvador_reduce_commands
ReducePassStep == drv.pc \in {"final", "reduce"} /\ drv'.pc = "reduce"

MaxReduceLen == 6
MaxReducePasses == 2
MaxReduceStart == 2
MaxReduceRep == 3

\* n entries of a cleared best_match
ZeroEntries(n) == [k \in 1..n |-> [length |-> 0, offset |-> 0]]

\* the valid parses of positions i..nEndOffset-1 as salvador_optimize_forward leaves them in
\* best_match: literals, matches of two bytes or more that copy equal bytes from inside the
\* window, rep-matches of one byte after literals; the entries covered by a match are zero
RECURSIVE ValidParses(_, _, _, _, _, _)
ValidParses(pInWindow, nEndOffset, i, nRepMatchOffset, nNumLiterals, bFirst) ==
    IF i >= nEndOffset THEN {<<>>}
    ELSE {<<[length |-> 0, offset |-> 0]>> \o rest :
             rest \in ValidParses(pInWindow, nEndOffset, i + 1, nRepMatchOffset,
                                  nNumLiterals + 1, FALSE)}
         \cup UNION {{(<<[length |-> c[2], offset |-> c[1]]>> \o ZeroEntries(c[2] - 1)) \o rest :
                         rest \in ValidParses(pInWindow, nEndOffset, i + c[2], c[1], 0, FALSE)} :
                     c \in {d \in (1..i) \X (1..(nEndOffset - i)) :
                               /\ ~bFirst
                               /\ d[2] >= 2 \/ (d[1] = nRepMatchOffset /\ nNumLiterals # 0)
                               /\ SameBytes(pInWindow, i, i - d[1], d[2])}}

\* the state of salvador_optimize_and_write_block before the first pass: a window, a block
\* in it, the rep-offset the block starts with, a valid parse of the block
InitReduce ==
    /\ \E n \in 1..MaxReduceLen, nStartOffset \in 0..MaxReduceStart, nBlockFlags \in 0..3,
          nCurRepMatchOffset \in 1..MaxReduceRep, bExact \in BOOLEAN :
       \E pInWindow \in [1..n -> ParseBytes] :
       \E best \in ValidParses(pInWindow, n, nStartOffset, nCurRepMatchOffset, 0,
                               HasFlag(nBlockFlags, 1)) :
          /\ nStartOffset < n
          /\ HasFlag(nBlockFlags, 1) => nCurRepMatchOffset = 1
          /\ ~HasFlag(nBlockFlags, 1) => nStartOffset >= 1
          /\ fwd = [FwdIdle EXCEPT !.pc = "done", !.pInWindow = pInWindow,
                                   !.nStartOffset = nStartOffset, !.nEndOffset = n,
                                   !.nBlockFlags = nBlockFlags,
                                   !.nCurRepMatchOffset = nCurRepMatchOffset]
          /\ cmp = [best_match |-> best, prev |-> best, first |-> best,
                    block_size |-> IF bExact THEN n - nStartOffset ELSE 1024]
          /\ drv = [pc |-> "final", nCurRepMatchOffset |-> nCurRepMatchOffset, nPasses |-> 0,
                    nDidReduce |-> 0, nMaxRead |-> -1]
    /\ wr = NewWriter(0)
    /\ call = CallNone
    /\ nOps = 0
    /\ blk = BlkIdle

\* one pass of salvador_reduce_commands over the parse; prev keeps the parse before it
R_Pass ==
    /\ drv.nPasses < MaxReducePasses
    /\ \E pJunk \in JunkOfBlock :
       \E st \in {salvador_reduce_commands(cmp.best_match, fwd.pInWindow, fwd.nStartOffset,
                                           fwd.nEndOffset, drv.nCurRepMatchOffset,
                                           fwd.nBlockFlags, pJunk)} :
          /\ cmp' = [cmp EXCEPT !.best_match = st.best, !.prev = cmp.best_match]
          /\ drv' = [drv EXCEPT !.pc = "reduce", !.nDidReduce = st.nDidReduce,
                                !.nPasses = drv.nPasses + 1, !.nMaxRead = st.nMaxRead]
    /\ UNCHANGED <<wr, call, nOps, blk, fwd>>

NextReduce == R_Pass

SpecReduce == InitReduce /\ [][NextReduce]_vars

(***************************************************************************)
(* C24                                                                     *)
(***************************************************************************)
\* bits of a run of nNumLiterals literals: token (left out for the first command), count,
\* bytes
LiteralsBits(nNumLiterals, nIsFirstCommand) ==
    IF nNumLiterals = 0 THEN 0
    ELSE ((IF nIsFirstCommand # 0 THEN 0 ELSE 1) + GammaSize(nNumLiterals)) + (8 * nNumLiterals)

\* the bits salvador_write_block writes for best from position i on: the commands, and for
\* a block flagged last the final literals and the end-of-data marker
RECURSIVE WrittenBits(_, _, _, _, _, _, _, _)
WrittenBits(best, nStartOffset, nEndOffset, nBlockFlags, i, nRepMatchOffset, nNumLiterals, nIsFirstCommand) ==
    IF i >= nEndOffset
    THEN IF HasFlag(nBlockFlags, 2)
         THEN LiteralsBits(nNumLiterals, nIsFirstCommand) + (1 + GammaSize(EOD_VALUE))
         ELSE 0
    ELSE IF wb_is_match(best[(i - nStartOffset) + 1], nRepMatchOffset, nNumLiterals)
    THEN (LiteralsBits(nNumLiterals, nIsFirstCommand)
          + (IF best[(i - nStartOffset) + 1].offset = nRepMatchOffset /\ nNumLiterals # 0
             THEN RepMatchBits(best[(i - nStartOffset) + 1].length)
             ELSE OffsetMatchBits(best[(i - nStartOffset) + 1].offset,
                                  best[(i - nStartOffset) + 1].length)))
         + WrittenBits(best, nStartOffset, nEndOffset, nBlockFlags,
                       i + best[(i - nStartOffset) + 1].length,
                       best[(i - nStartOffset) + 1].offset, 0,
                       IF nNumLiterals # 0 THEN 0 ELSE nIsFirstCommand)
    ELSE WrittenBits(best, nStartOffset, nEndOffset, nBlockFlags, i + 1, nRepMatchOffset,
                     nNumLiterals + 1, nIsFirstCommand)

\* the bits written for the parse best of the block
BlockBits(best) ==
    WrittenBits(best, fwd.nStartOffset, fwd.nEndOffset, fwd.nBlockFlags, fwd.nStartOffset,
                drv.nCurRepMatchOffset, 0, IF HasFlag(fwd.nBlockFlags, 1) THEN 1 ELSE 0)

MaxSuppShort == 5
MaxSuppLen == 133
MaxSuppStart == 1

\* a window of n bytes with period nPeriod and, when nOdd # 0, one other byte at index nOdd
PeriodicWindow(n, nPeriod, nOdd) ==
    [q \in 1..n |-> IF q = nOdd THEN 99 ELSE 97 + ((q - 1) % nPeriod)]

\* the windows of the pass: every short window, and long windows with a long repetition
SuppWindowSet ==
    UNION {[1..n -> ParseBytes] : n \in 2..MaxSuppShort}
    \cup {PeriodicWindow(n, nPeriod, nOdd) :
             n \in (MaxSuppLen - 1)..MaxSuppLen, nPeriod \in 1..2,
             nOdd \in {0, MaxSuppLen - 2}}

\* the matches of even offset among entries, each with nDepth as its depth
EvenOffsets(entries, nDepth) ==
    [r \in 1..Len(SelectSeq(entries, LAMBDA e : e.offset % 2 = 0)) |->
        [SelectSeq(entries, LAMBDA e : e.offset % 2 = 0)[r] EXCEPT !.depth = nDepth]]

\* the table the match finder leaves: nothing, every match, the matches of even offset, or
\* the matches of even offset with a depth of 1 each
FinderTable(pInWindow, nStartOffset, nEndOffset, nMaxOffset, finder) ==
    IF finder \in {"even", "deep"}
    THEN [p \in 1..(nEndOffset - nStartOffset) |->
             EvenOffsets(FoundMatches(pInWindow, (nStartOffset + p) - 1, nEndOffset,
                                      nMaxOffset, 1),
                         IF finder = "deep" THEN 1 ELSE 0)]
    ELSE salvador_find_all_matches(pInWindow, nStartOffset, nEndOffset, nMaxOffset, finder)

InitSupp ==
    /\ \E pInWindow \in SuppWindowSet, nPreviousBlockSize \in 0..MaxSuppStart,
          nMaxOffset \in {1, MAX_OFFSET}, finder \in {"none", "all", "even", "deep"} :
          /\ nPreviousBlockSize < Len(pInWindow)
          /\ Len(pInWindow) > MaxSuppShort => finder = "none"
          /\ fwd = [FwdIdle EXCEPT !.pInWindow = pInWindow,
                                   !.nStartOffset = nPreviousBlockSize,
                                   !.nEndOffset = Len(pInWindow)]
          /\ cmp = [match |-> FinderTable(pInWindow, nPreviousBlockSize, Len(pInWindow),
                                          nMaxOffset, finder),
                    match0 |-> FinderTable(pInWindow, nPreviousBlockSize, Len(pInWindow),
                                           nMaxOffset, finder),
                    max_offset |-> nMaxOffset]
          /\ drv = [pc |-> "start", finder |-> finder]
    /\ wr = NewWriter(0)
    /\ call = CallNone
    /\ nOps = 0
    /\ blk = BlkIdle

\* the first supplementation pass over the block
S_PassA ==
    /\ drv.pc = "start"
    /\ cmp' = [cmp EXCEPT !.match = supplement_small_matches(cmp.match, fwd.pInWindow,
                                                             fwd.nStartOffset, fwd.nEndOffset,
                                                             cmp.max_offset)]
    /\ drv' = [drv EXCEPT !.pc = "supplemented"]
    /\ UNCHANGED <<wr, call, nOps, blk, fwd>>

NextSupp == S_PassA

SpecSupp == InitSupp /\ [][NextSupp]_vars

(***************************************************************************)
(* C25                                                                     *)
(***************************************************************************)
\* entry r of position index p was inserted by the pass
Supplemented(p, r) == r > Len(cmp.match0[p])

\* offset nMatchOffset is among the entries before entry r, as an offset or as an offset
\* less its depth
PresentBefore(entries, r, nMatchOffset) ==
    \E q \in 1..(r - 1) :
        \/ entries[q].offset = nMatchOffset
        \/ (entries[q].offset - (entries[q].depth % 16384)) = nMatchOffset

\* what C25 says of an inserted match but for its length: its offset, its depth, the entries
\* of the position
SuppEntryOk(p, r) ==
    /\ cmp.match[p][r].offset >= 1
    /\ cmp.match[p][r].offset <= cmp.max_offset
    /\ cmp.match[p][r].offset <= (fwd.nStartOffset + p) - 1
    /\ ~PresentBefore(cmp.match[p], r, cmp.match[p][r].offset)
    /\ cmp.match[p][r].depth = 16384
    /\ cmp.match[p][r].length >= 2
    /\ Len(cmp.match0[p]) < 15 => Len(cmp.match[p]) <= 15
    /\ SubSeq(cmp.match[p], 1, Len(cmp.match0[p])) = cmp.match0[p]

\* C25: a match inserted by pass A has an offset <= max_offset that is not already present
\* at that position (as a primary offset or as offset - depth), a depth field of 0x4000, a
\* length that is at least 2, at most 128 and equal to the true common length of the two
\* positions capped at 128 and at the block end, and at most 15 entries exist at the
\* position afterwards when fewer than 15 existed before
C25_SupplementA ==
    drv.pc = "supplemented" =>
        \A p \in DOMAIN cmp.match : \A r \in DOMAIN cmp.match[p] :
            Supplemented(p, r) =>
                /\ SuppEntryOk(p, r)
                /\ cmp.match[p][r].length <= 128
                /\ cmp.match[p][r].length =
                       Min(128, CommonLen(fwd.pInWindow, (fwd.nStartOffset + p) - 1,
                                          cmp.match[p][r].offset, fwd.nEndOffset))

\* what holds of the length: it is the true common length capped at the block end when
\* that is below 128, and otherwise 128, 129 or 130 bytes that do match
C25_SupplementALengths ==
    drv.pc = "supplemented" =>
        \A p \in DOMAIN cmp.match : \A r \in DOMAIN cmp.match[p] :
            Supplemented(p, r) =>
                /\ SuppEntryOk(p, r)
                /\ cmp.match[p][r].length <= 130
                /\ cmp.match[p][r].length <=
                       CommonLen(fwd.pInWindow, (fwd.nStartOffset + p) - 1,
                                 cmp.match[p][r].offset, fwd.nEndOffset)
                /\ cmp.match[p][r].length < 128 =>
                       cmp.match[p][r].length =
                           CommonLen(fwd.pInWindow, (fwd.nStartOffset + p) - 1,
                                     cmp.match[p][r].offset, fwd.nEndOffset)

\* the pass has inserted a match of more than 128 bytes
C25_Witness ==
    /\ drv.pc = "supplemented"
    /\ \E p \in DOMAIN cmp.match : \E r \in DOMAIN cmp.match[p] :
           Supplemented(p, r) /\ cmp.match[p][r].length > 128

(***************************************************************************)
(* SpecForward: salvador_compress on inputs of one block that is long      *)
(* enough for the forward matches of salvador_insert_forward_match to meet *)
(***************************************************************************)
MinForwardLen == 8
MaxForwardLen == 10

\* a call on an input of MinForwardLen..MaxForwardLen bytes, which is one block of
\* block_size 1024 as with the BLOCK_SIZE of format.h
InitForward ==
    /\ \E n \in MinForwardLen..MaxForwardLen :
       \E pInputData \in [1..n -> ParseBytes] :
          /\ drv = [DrvIdle EXCEPT
                       !.pc = "loop", !.pInputData = pInputData, !.nInputSize = n,
                       !.nMaxOutBufferSize = 40, !.finder = "all",
                       !.nBlockSize = 1024,
                       !.nMaxOutBlockSize = salvador_get_max_compressed_size(1024),
                       !.nBlockFlags = 1]
          /\ cmp = [CmpIdle EXCEPT !.block_size = 1024]
          /\ wr = NewWriter(40)
    /\ call = CallNone
    /\ nOps = 0
    /\ blk = BlkIdle
    /\ fwd = FwdIdle

SpecForward == InitForward /\ [][Next]_vars

(***************************************************************************)
(* C26: the visited table of salvador_insert_forward_match                *)
(***************************************************************************)
\* the offsets projected through the position of table index p, oldest first
SeenAt(p) == cmp.visited[p].seen

\* the event compared the bytes at the position with the bytes at the offset
Compared(e) == e[2] \in {"new", "eq", "ne"}

\* the event compared the bytes and found them equal, so that the offset was looked up in
\* the match table of the position and entered when absent
Inserted(e) == e[2] \in {"new", "eq"}

\* C26 as stated: within one block, for every pair (position, offset) the match
\* comparison and insertion at that position is performed at most once
C26_ComparedOnce ==
    \A p \in DOMAIN cmp.visited :
       \A k, l \in DOMAIN SeenAt(p) :
          (k < l /\ Compared(SeenAt(p)[k]) /\ Compared(SeenAt(p)[l]))
             => SeenAt(p)[k][1] # SeenAt(p)[l][1]

\* C26 amended: the visited table keeps one outer and one inner offset per position, so
\* within one block the same offset is never projected through a position twice in a
\* row, an offset whose comparison succeeded at a position is not compared there again
\* before the comparison of another offset has succeeded there, and an offset enters the
\* match table of a position as a new entry at most once; the same pair
\* (position, offset) can be compared and looked up more than once
C26_ForwardRepMemo ==
    \A p \in DOMAIN cmp.visited :
       /\ \A k \in DOMAIN SeenAt(p) :
             k > 1 => SeenAt(p)[k][1] # SeenAt(p)[k - 1][1]
       /\ \A k, l \in DOMAIN SeenAt(p) :
             (/\ k < l
              /\ Inserted(SeenAt(p)[k]) /\ Compared(SeenAt(p)[l])
              /\ SeenAt(p)[k][1] = SeenAt(p)[l][1])
                => \E m \in (k + 1)..(l - 1) :
                      Inserted(SeenAt(p)[m]) /\ SeenAt(p)[m][1] # SeenAt(p)[k][1]
       /\ \A k, l \in DOMAIN SeenAt(p) :
             (k < l /\ SeenAt(p)[k][2] = "new" /\ SeenAt(p)[l][2] = "new")
                => SeenAt(p)[k][1] # SeenAt(p)[l][1]
       /\ cmp.visited[p].seen # <<>> =>
             cmp.visited[p].outer = SeenAt(p)[Len(SeenAt(p))][1]

\* a block in which an offset entered the match table of a position, another offset was
\* compared with success there, and the first offset was compared with success again
C26_Witness ==
    \E p \in DOMAIN cmp.visited :
       \E k, m, l \in DOMAIN SeenAt(p) :
          /\ k < m /\ m < l
          /\ SeenAt(p)[k][2] = "new" /\ Inserted(SeenAt(p)[m]) /\ SeenAt(p)[l][2] = "eq"
          /\ SeenAt(p)[k][1] = SeenAt(p)[l][1]
          /\ SeenAt(p)[m][1] # SeenAt(p)[k][1]

(***************************************************************************)
(* C27: the final literals a block defers to the next block                *)
(***************************************************************************)
\* the spans follow one another from input position nFrom on and end at nTo
RECURSIVE SpansTile(_, _, _)
SpansTile(spans, nFrom, nTo) ==
    IF spans = <<>> THEN nFrom = nTo
    ELSE /\ spans[1].pos = nFrom
         /\ spans[1].len >= 1
         /\ SpansTile(Tail(spans), nFrom + spans[1].len, nTo)

\* the spans of the commands emitted by the blocks of a history, in stream order
RECURSIVE EmittedSpans(_)
EmittedSpans(blocks) ==
    IF blocks = <<>> THEN <<>>
    ELSE EmittedSpans(SubSeq(blocks, 1, Len(blocks) - 1)) \o blocks[Len(blocks)].spans

\* the block was written, and the driver accepted it
BlockAccepted(b) == b.nOutDataSize >= 0 /\ b.nDeferred >= 0 /\ b.nDeferred < b.nInDataSize

\* C27: a block not flagged last writes the commands up to its trailing literal run, writes
\* nothing for that run and returns its length in *nFinalLiterals; the driver starts the next
\* block at the first of those bytes; a block flagged last writes all its literals and returns
\* *nFinalLiterals = 0; after a successful compression the emitted literal runs and matches
\* cover every input byte after the dictionary exactly once, in order
C27_FinalLiteralsDeferral ==
    /\ \A k \in 1..Len(drv.blocks) :
          LET b == drv.blocks[k]
          IN  b.nOutDataSize >= 0 =>
                 /\ b.nDeferred \in 0..b.nInDataSize
                 /\ SpansTile(b.spans, b.nStart, (b.nStart + b.nInDataSize) - b.nDeferred)
                 /\ IF HasFlag(b.nBlockFlags, 2)
                    THEN b.nDeferred = 0 /\ b.kind = "eod"
                    ELSE b.kind = "defer" /\ b.t0 = b.t1
                 /\ (k < Len(drv.blocks) /\ BlockAccepted(b)) =>
                        drv.blocks[k + 1].nStart = (b.nStart + b.nInDataSize) - b.nDeferred
    /\ (blk.pc = "done" /\ drv.pc = "write" /\ blk.ret >= 0) =>
          /\ drv.nCurFinalLiterals = blk.nNumLiterals
          /\ blk.i = blk.nEndOffset
          /\ HasFlag(blk.nBlockFlags, 2) => drv.nCurFinalLiterals = 0
          /\ ~HasFlag(blk.nBlockFlags, 2) =>
                \A q \in (blk.nEndOffset - blk.nNumLiterals)..(blk.nEndOffset - 1) :
                   ~wb_is_match(BestMatchAt(q), blk.nRepMatchOffset, 1)
    /\ Succeeded =>
          SpansTile(EmittedSpans(drv.blocks), drv.nDictionarySize, drv.nInputSize)

\* a successful compression in several blocks whose first block deferred final literals
\* after a match and whose second block wrote them
C27_Witness ==
    /\ Succeeded
    /\ Len(drv.blocks) >= 2
    /\ drv.blocks[1].nDeferred >= 1
    /\ drv.blocks[1].spans # <<>>
    /\ drv.blocks[2].spans # <<>>

(***************************************************************************)
(* C28: the entries of pBestMatch a reduction pass reads                   *)
(***************************************************************************)
\* a reduction pass has run on the block at window positions
\* fwd.nStartOffset .. fwd.nEndOffset - 1
Reduced == drv.pc = "reduce" /\ drv.nPasses >= 1

\* C28: salvador_reduce_commands reads and writes best-match entries only at the positions
\* of the block, [P, P+L), also when a match ends exactly at the block end and when the
\* block length equals the allocated block_size
C28_ReducerInBlock ==
    Reduced => drv.nMaxRead < fwd.nEndOffset

\* the entry read past the block is the one at the block end, and the pass writes the
\* entries of the block only
ReducerReadsUpToEnd ==
    Reduced => /\ drv.nMaxRead <= fwd.nEndOffset
               /\ Len(cmp.best_match) = fwd.nEndOffset - fwd.nStartOffset

\* a pass on a block of block_size bytes whose parse ends with a match has read the entry
\* at the block end, which lies behind the block_size entries of best_match
C28_Witness ==
    /\ Reduced
    /\ drv.nMaxRead = fwd.nEndOffset
    /\ (fwd.nEndOffset - fwd.nStartOffset) = cmp.block_size
    /\ \E q \in 1..(Len(cmp.best_match) - 1) :
          /\ cmp.best_match[q].length >= MIN_ENCODED_MATCH_SIZE
          /\ cmp.best_match[q].length = (Len(cmp.best_match) - q) + 1

(***************************************************************************)
(* C29: the parse after the reduction passes                               *)
(***************************************************************************)
\* the offsets of the matches salvador_write_block finds in best from position i on
RECURSIVE ParseOffsets(_, _, _, _, _, _)
ParseOffsets(best, nStartOffset, nEndOffset, i, nRepMatchOffset, nNumLiterals) ==
    IF i >= nEndOffset THEN {}
    ELSE LET pMatch == best[(i - nStartOffset) + 1]
         IN  IF wb_is_match(pMatch, nRepMatchOffset, nNumLiterals)
             THEN {pMatch.offset}
                  \cup ParseOffsets(best, nStartOffset, nEndOffset, i + pMatch.length,
                                    pMatch.offset, 0)
             ELSE ParseOffsets(best, nStartOffset, nEndOffset, i + 1, nRepMatchOffset,
                               nNumLiterals + 1)

\* from position i on the commands of best end exactly at nEndOffset, and every match
\* copies equal bytes from an offset of the set offsets that lies inside the window
RECURSIVE ParseValid(_, _, _, _, _, _, _, _)
ParseValid(best, pInWindow, nStartOffset, nEndOffset, i, nRepMatchOffset, nNumLiterals, offsets) ==
    IF i >= nEndOffset THEN i = nEndOffset
    ELSE LET pMatch == best[(i - nStartOffset) + 1]
         IN  IF wb_is_match(pMatch, nRepMatchOffset, nNumLiterals)
             THEN /\ pMatch.offset \in offsets
                  /\ i >= pMatch.offset
                  /\ SameBytes(pInWindow, i, i - pMatch.offset, pMatch.length)
                  /\ ParseValid(best, pInWindow, nStartOffset, nEndOffset, i + pMatch.length,
                                pMatch.offset, 0, offsets)
             ELSE ParseValid(best, pInWindow, nStartOffset, nEndOffset, i + 1,
                             nRepMatchOffset, nNumLiterals + 1, offsets)

\* the offsets of the matches of the parse best of the block, and the rep-offset the block
\* starts with
OffsetsOf(best) ==
    ParseOffsets(best, fwd.nStartOffset, fwd.nEndOffset, fwd.nStartOffset,
                 drv.nCurRepMatchOffset, 0)
    \cup {drv.nCurRepMatchOffset}

\* best is a valid parse of the block whose matches have their offsets in offsets
ValidWith(best, offsets) ==
    /\ Len(best) = fwd.nEndOffset - fwd.nStartOffset
    /\ TilesBlock(best, fwd.nStartOffset, fwd.nEndOffset, fwd.nStartOffset)
    /\ ParseValid(best, fwd.pInWindow, fwd.nStartOffset, fwd.nEndOffset, fwd.nStartOffset,
                  drv.nCurRepMatchOffset, 0, offsets)
    /\ HasFlag(fwd.nBlockFlags, 1) => best[1] = [length |-> 0, offset |-> 0]

SweepRank ==
    IF fwd.pc = "literals"
    THEN (fwd.nEndOffset - fwd.i) * (NMATCHES_PER_INDEX + 2) + (NMATCHES_PER_INDEX + 1)
    ELSE IF fwd.pc = "match"
    THEN (fwd.nEndOffset - fwd.i) * (NMATCHES_PER_INDEX + 2) + (NMATCHES_PER_INDEX - fwd.m)
    ELSE IF fwd.pc = "walk" THEN 1
    ELSE 0

\* more steps than a sweep over a block of block_size bytes has
SweepCap == (cmp.block_size + 1) * (NMATCHES_PER_INDEX + 2)

\* a measure of what salvador_compress has left to do: the input bytes not yet consumed
\* first, then the stages of the block in hand (first pass, final pass, reduction passes of
\* which there are 20 at most, the positions salvador_write_block has left)
Rank ==
    IF drv.pc = "returned" THEN 0
    ELSE IF drv.pc = "loop" /\ ~InLoop THEN 1
    ELSE (drv.nInputSize - drv.nOriginalSize) * (3 * SweepCap + 60)
         + (IF drv.pc = "loop" THEN 3 * SweepCap + 50
            ELSE IF drv.pc = "pass1" THEN 2 * SweepCap + 40 + SweepRank
            ELSE IF drv.pc = "final" THEN SweepCap + 30 + SweepRank
            ELSE IF drv.pc = "reduce" THEN SweepCap + (21 - drv.nPasses)
            ELSE IF blk.pc = "loop" THEN 2 + Max(0, blk.nEndOffset - blk.i)
            ELSE 1)

\* an iteration of the block loop ends: the rest of the loop body after the block returned
IterationEnds == drv.pc = "write" /\ blk.pc = "done" /\ drv'.pc = "loop"

\* C30: the block loop of salvador_compress terminates for every input: every step lowers
\* a measure that is never negative; each iteration sets the error flag (the block returned
\* -1, or a block not flagged last deferred all its bytes as final literals) or advances
\* the counter of consumed input by at least one byte; the counter never passes the input
\* size, and on success it equals the input size at the exit
C30_DriverTerminates ==
    /\ [][Rank' < Rank]_vars
    /\ [](Rank >= 0 /\ (Rank = 0 <=> drv.pc = "returned"))
    /\ [][IterationEnds =>
             IF blk.ret < 0 \/ drv.nCurFinalLiterals >= drv.nInDataSize
             THEN /\ drv'.nError # 0
                  /\ drv'.nOriginalSize = drv.nOriginalSize
                  /\ blk.ret >= 0 => ~HasFlag(drv.nBlockFlags, 2)
             ELSE /\ drv'.nError = drv.nError
                  /\ drv'.nOriginalSize >= drv.nOriginalSize + 1]_vars
    /\ [](drv.nOriginalSize <= drv.nInputSize)
    /\ [](drv.pc = "returned" =>
             IF drv.ret >= 0
             THEN drv.nError = 0 /\ drv.nOriginalSize = drv.nInputSize
             ELSE drv.nError # 0)

\* the loop has ended without error after two iterations
C30_Witness ==
    /\ drv.pc = "returned"
    /\ drv.ret >= 0
    /\ drv.nNumBlocks >= 2
    /\ drv.nOriginalSize = drv.nInputSize

====
